---- MODULE Spec2Model ----
(***************************************************************************)
(* Blackjack round engine (game/BlackjackGame.cpp, game/Hand.cpp,          *)
(* game/Deck.cpp), the trainer's episode loop (training/Trainer.cpp,       *)
(* ai/GameStateConverter.hpp) and the Q-learning update                    *)
(* (ai/QLearningAgent.cpp, ai/PolicyTable.hpp).                            *)
(*                                                                         *)
(* A card is its rank 1..13 (Card.hpp: ACE = 1 .. KING = 13); suits are    *)
(* never read by the modelled code.  The shuffled shoe is modelled by      *)
(* choosing the rank of each card at the moment it is dealt.               *)
(* Rewards, Q-values and the exploration rate are doubles in the source;   *)
(* here they are integers in units of 1/Unit, and the hyperparameters are  *)
(* dyadic fractions, for which the doubles compute exactly.                *)
(***************************************************************************)
EXTENDS Integers, Sequences, FiniteSets, TLC

\* ---------------------------------------------------------------- bounds
\* The player hits at most this many times in a round.
MaxHits == 1
\* Configured penetration (GameRules::penetration), in percent of the shoe.
PenetrationPct == 1
\* The agent learns from at most this many experiences.
MaxLearnSteps == 2

\* Rank enum of Card.hpp.
ACE == 1
SIX == 6
JACK == 11
QUEEN == 12

\* What the shuffles of one run put within reach of the cursor: a shoe is
\* represented by the set of ranks its next cards are drawn from.
ShoeSets == {{ACE, SIX}, {ACE, JACK}, {SIX, JACK}, {JACK, QUEEN}}

\* ---------------------------------------------------------------- Card / Hand
\* Card::getValue: ten and face cards are worth 10, other cards their rank.
CardValue(r) == IF r >= 10 THEN 10 ELSE r

\* Card::isAce
IsAce(r) == r = 1

RECURSIVE RawTotal(_)
\* Hand::getValue, first pass: every Ace counted as 11.
RawTotal(h) ==
  IF h = <<>> THEN 0
  ELSE (IF IsAce(Head(h)) THEN 11 ELSE CardValue(Head(h))) + RawTotal(Tail(h))

RECURSIVE CountAces(_)
\* Hand::getValue, first pass: number of Aces.
CountAces(h) ==
  IF h = <<>> THEN 0
  ELSE (IF IsAce(Head(h)) THEN 1 ELSE 0) + CountAces(Tail(h))

RECURSIVE Adjust(_, _)
\* Hand::getValue, second pass: lower one Ace at a time while the total is over 21.
Adjust(total, aces) ==
  IF total > 21 /\ aces > 0 THEN Adjust(total - 10, aces - 1)
  ELSE [total |-> total, aces |-> aces]

\* Faulty variant of getValue: a hand is soft whenever it holds an Ace.
getValue_SoftWithAnyAce(h) ==
  LET a == Adjust(RawTotal(h), CountAces(h))
  IN  [total |-> a.total, isSoft |-> CountAces(h) > 0]

\* Hand::getValue
getValue(h) ==
  LET a == Adjust(RawTotal(h), CountAces(h))
  IN  [total |-> a.total, isSoft |-> (a.aces > 0) /\ (a.total <= 21)]

getTotal(h) == getValue(h).total
isSoft(h) == getValue(h).isSoft
isBust(h) == getTotal(h) > 21
isBlackjack(h) == IF Len(h) # 2 THEN FALSE ELSE getTotal(h) = 21
\* Hand::canSplit: two cards of the same rank.
\* Faulty variant of handCanSplit: compares card values, so J and Q would pair.
handCanSplit_ByValue(h) ==
  IF Len(h) # 2 THEN FALSE ELSE CardValue(h[1]) = CardValue(h[2])

handCanSplit(h) == IF Len(h) # 2 THEN FALSE ELSE h[1] = h[2]

\* ---------------------------------------------------------------- state
VARIABLES
  rules,             \* GameRules (fields the model carries)
  shoe,              \* Deck::cards_ (the ranks its shuffles put within reach)
  currentIndex,      \* Deck::currentIndex_
  playerHands,       \* BlackjackGame::playerHands_ (sequence of hands)
  currentHandIndex,  \* BlackjackGame::currentHandIndex_ (0-based)
  splitUsed,         \* BlackjackGame::splitUsed_
  dealerHand,        \* BlackjackGame::dealerHand_
  roundComplete,     \* BlackjackGame::roundComplete_
  outcome,           \* BlackjackGame::outcome_ ("NONE" = empty optional)
  outcomes,          \* BlackjackGame::outcomes_
  doubledByHand      \* BlackjackGame::doubledByHand_

gameVars == <<rules, shoe, currentIndex, playerHands, currentHandIndex, splitUsed,
              dealerHand, roundComplete, outcome, outcomes, doubledByHand>>

VARIABLES
  pc,                \* Trainer::runEpisode: "idle" between episodes, "turn" in playAgentTurn
  experiences,       \* Trainer::runEpisode, the local vector of captured experiences
  learnLog,          \* the experiences passed to Agent::learn since the episode began
  params,            \* QLearningAgent::params_
  qTable,            \* QLearningAgent::qTable_ (PolicyTable::table_)
  epsilon,           \* QLearningAgent::epsilon_
  stepCount          \* QLearningAgent::stepCount_

trainVars == <<pc, experiences, learnLog>>
agentVars == <<params, qTable, epsilon, stepCount>>

VARIABLES
  evalPc,            \* position in Evaluator::evaluate
  numGames,          \* parameter numGames of Evaluator::evaluate
  gameIndex,         \* loop variable i of Evaluator::evaluate
  result             \* local result of Evaluator::evaluate

evalVars == <<evalPc, numGames, gameIndex, result>>

VARIABLES
  defaultValue_,     \* PolicyTable::defaultValue_
  everSet            \* the states PolicyTable::set was called with (history)

tableVars == <<defaultValue_, everSet>>

VARIABLES
  savedFile,         \* the Q-table file written by PolicyTable::saveToBinary
  table2             \* PolicyTable::table_ of the table the file is loaded into

fileVars == <<savedFile, table2>>

VARIABLES
  config,                    \* Trainer::config_
  loopPc,                    \* position in Trainer::trainEpisodes
  episode,                   \* loop variable of Trainer::trainEpisodes
  endEpisode,                \* local endEpisode of Trainer::trainEpisodes
  totalEpisodes,             \* Trainer::currentMetrics_.totalEpisodes
  episodesSinceImprovement,  \* Trainer::episodesSinceImprovement_
  bestWinRate,               \* Trainer::bestWinRate_
  resultWinRate,             \* result.winRate of the last Trainer::evaluate
  shouldStop,                \* Trainer::shouldStop_
  checkpoints,               \* episode numbers of the checkpoint files written
  episodeExperiences,        \* experiences captured by the running episode
  episodeLearned,            \* learn calls made by the running episode
  episodesRun,               \* calls of runEpisode that returned (history)
  evaluations,               \* calls of Trainer::evaluate (history)
  startedAfterStop           \* episodes started with shouldStop_ set (history)

loopVars == <<config, loopPc, episode, endEpisode, totalEpisodes,
              episodesSinceImprovement, bestWinRate, resultWinRate, shouldStop,
              checkpoints, episodeExperiences, episodeLearned, episodesRun,
              evaluations, startedAfterStop>>

VARIABLES
  queryState, queryAction, optimalAction, correct, accuracies

strategyVars == <<queryState, queryAction, optimalAction, correct, accuracies>>

VARIABLES
  hand

handVars == <<hand>>

VARIABLES
  cards_

deckVars == <<cards_>>

vars == <<rules, shoe, currentIndex, playerHands, currentHandIndex, splitUsed,
          dealerHand, roundComplete, outcome, outcomes, doubledByHand,
          pc, experiences, learnLog, params, qTable, epsilon, stepCount,
          evalPc, numGames, gameIndex, result,
          defaultValue_, everSet,
          savedFile, table2,
          config, loopPc, episode, endEpisode, totalEpisodes,
          episodesSinceImprovement, bestWinRate, resultWinRate, shouldStop,
          checkpoints, episodeExperiences, episodeLearned, episodesRun,
          evaluations, startedAfterStop,
          queryState, queryAction, optimalAction, correct, accuracies,
          hand,
          cards_>>

\* The round engine's fields as one record, so that each engine method is an
\* operator from the record before the call to the possible records after it.
G ==
  [rules |-> rules, shoe |-> shoe, currentIndex |-> currentIndex, playerHands |-> playerHands,
   currentHandIndex |-> currentHandIndex, splitUsed |-> splitUsed,
   dealerHand |-> dealerHand, roundComplete |-> roundComplete,
   outcome |-> outcome, outcomes |-> outcomes, doubledByHand |-> doubledByHand]

SetGame(g) ==
  /\ rules' = g.rules
  /\ shoe' = g.shoe
  /\ currentIndex' = g.currentIndex
  /\ playerHands' = g.playerHands
  /\ currentHandIndex' = g.currentHandIndex
  /\ splitUsed' = g.splitUsed
  /\ dealerHand' = g.dealerHand
  /\ roundComplete' = g.roundComplete
  /\ outcome' = g.outcome
  /\ outcomes' = g.outcomes
  /\ doubledByHand' = g.doubledByHand

\* ---------------------------------------------------------------- Deck
\* Deck::initializeDeck: 52 cards per deck.
CardsPerDeck == 52
totalCards(g) == CardsPerDeck * g.rules.numDecks

\* Deck::needsReshuffle; penetration is carried in percent.
needsReshuffle(g) ==
  g.currentIndex >= (totalCards(g) * g.rules.penetration) \div 100

\* Deck::deal succeeds for the cards a call has taken (it throws past the end).
Dealt(g) == g.currentIndex <= totalCards(g)

\* Deck::reset: rebuild and shuffle; the cursor returns to 0.
deckReset(g) == [g EXCEPT !.currentIndex = 0]

\* BlackjackGame::checkAndReshuffle
checkAndReshuffle(g) == IF needsReshuffle(g) THEN deckReset(g) ELSE g

\* ---------------------------------------------------------------- BlackjackGame
\* BlackjackGame::getPlayerHand
getPlayerHand(g) == g.playerHands[g.currentHandIndex + 1]

\* Faulty variant of determineOutcome: the player's blackjack is tested before the
\* both-blackjack case.
determineOutcome_PlayerFirst(playerHand, dealer) ==
  LET playerTotal == getTotal(playerHand)
      dealerTotal == getTotal(dealer)
  IN  IF isBlackjack(playerHand) THEN "PLAYER_BLACKJACK"
      ELSE IF isBlackjack(dealer) THEN "DEALER_WIN"
      ELSE IF playerTotal > 21 THEN "PLAYER_BUST"
      ELSE IF dealerTotal > 21 THEN "DEALER_BUST"
      ELSE IF playerTotal > dealerTotal THEN "PLAYER_WIN"
      ELSE IF dealerTotal > playerTotal THEN "DEALER_WIN"
      ELSE "PUSH"

\* BlackjackGame::getDealerHand
getDealerHand(g, hideHoleCard) ==
  IF hideHoleCard /\ Len(g.dealerHand) >= 2 THEN <<g.dealerHand[1]>> ELSE g.dealerHand

\* BlackjackGame::determineOutcome
determineOutcome(playerHand, dealer) ==
  LET playerBlackjack == isBlackjack(playerHand)
      dealerBlackjack == isBlackjack(dealer)
      playerTotal == getTotal(playerHand)
      dealerTotal == getTotal(dealer)
  IN  IF playerBlackjack /\ dealerBlackjack THEN "PUSH"
      ELSE IF playerBlackjack THEN "PLAYER_BLACKJACK"
      ELSE IF dealerBlackjack THEN "DEALER_WIN"
      ELSE IF playerTotal > 21 THEN "PLAYER_BUST"
      ELSE IF dealerTotal > 21 THEN "DEALER_BUST"
      ELSE IF playerTotal > dealerTotal THEN "PLAYER_WIN"
      ELSE IF dealerTotal > playerTotal THEN "DEALER_WIN"
      ELSE "PUSH"

\* Faulty variant of shouldHit: the soft test is missing, so the dealer draws on hard 17.
shouldHit_OnHard17(h, hitsSoft17) ==
  LET total == getTotal(h)
  IN  IF total < 17 THEN TRUE
      ELSE IF total = 17 /\ hitsSoft17 THEN TRUE
      ELSE FALSE

\* BlackjackGame::playDealerHand, the loop condition.
shouldHit(h, hitsSoft17) ==
  LET total == getTotal(h)
      soft == isSoft(h)
  IN  IF total < 17 THEN TRUE
      ELSE IF total = 17 /\ soft /\ hitsSoft17 THEN TRUE
      ELSE FALSE

\* Cards the player holds, all hands together.
RECURSIVE playerCards(_)
playerCards(hands) ==
  IF hands = <<>> THEN 0 ELSE Len(Head(hands)) + playerCards(Tail(hands))

\* The hits taken so far in an in-progress round: the cards held beyond the
\* two dealt to each hand.
hitsTaken(g) == playerCards(g.playerHands) - 2 * Len(g.playerHands)

RECURSIVE playDealerHand(_, _, _)
\* BlackjackGame::playDealerHand: the dealer hands the loop can end with, one for
\* every sequence of cards the shoe sh can deliver.
playDealerHand(h, hitsSoft17, sh) ==
  IF ~shouldHit(h, hitsSoft17) THEN {h}
  ELSE UNION { LET h2 == Append(h, c)
               IN  IF isBust(h2) THEN {h2} ELSE playDealerHand(h2, hitsSoft17, sh)
               : c \in sh }

\* BlackjackGame::finishRoundAndResolveOutcomes
finishRoundAndResolveOutcomes(g) ==
  { LET outs == [i \in 1..Len(g.playerHands) |->
                   determineOutcome(g.playerHands[i], d)]
    IN  [g EXCEPT !.dealerHand = d,
                  !.currentIndex = @ + (Len(d) - Len(g.dealerHand)),
                  !.outcomes = outs,
                  !.outcome = outs[1],
                  !.roundComplete = TRUE]
    : d \in playDealerHand(g.dealerHand, g.rules.dealerHitsSoft17, g.shoe) }

\* Faulty variant of advanceOrFinish: the round is finished even when a split hand is
\* still to be played.
advanceOrFinish_NeverAdvance(g) == finishRoundAndResolveOutcomes(g)

\* The tail shared by hit (on bust), stand and doubleDown: next hand or finish.
advanceOrFinish(g) ==
  IF g.currentHandIndex + 1 < Len(g.playerHands)
  THEN {[g EXCEPT !.currentHandIndex = @ + 1]}
  ELSE finishRoundAndResolveOutcomes(g)

\* Faulty variant of canDoubleDown: the two-card test is missing.
canDoubleDown_AnySize(g) ==
  IF g.roundComplete THEN FALSE
  ELSE IF g.splitUsed /\ Len(g.playerHands) > 1 THEN FALSE
  ELSE TRUE

\* Faulty variant of canDoubleDown: doubling after a split follows rules.doubleAfterSplit.
canDoubleDown_AfterSplit(g) ==
  IF g.roundComplete THEN FALSE
  ELSE IF Len(getPlayerHand(g)) # 2 THEN FALSE
  ELSE IF g.splitUsed /\ Len(g.playerHands) > 1 THEN g.rules.doubleAfterSplit
  ELSE TRUE

\* BlackjackGame::canDoubleDown
canDoubleDown(g) ==
  IF g.roundComplete THEN FALSE
  ELSE IF Len(getPlayerHand(g)) # 2 THEN FALSE
  ELSE IF g.splitUsed /\ Len(g.playerHands) > 1 THEN FALSE
  ELSE TRUE

\* BlackjackGame::canSplit
canSplit(g) ==
  IF g.roundComplete \/ g.splitUsed THEN FALSE
  ELSE IF Len(g.playerHands) # 1 THEN FALSE
  ELSE handCanSplit(g.playerHands[1])

\* Faulty variant of canSurrender: the two-card test is missing.
canSurrender_AnySize(g) ==
  IF g.roundComplete \/ ~g.rules.surrender THEN FALSE
  ELSE IF Len(g.playerHands) # 1 THEN FALSE
  ELSE TRUE

\* BlackjackGame::canSurrender
canSurrender(g) ==
  IF g.roundComplete \/ ~g.rules.surrender THEN FALSE
  ELSE IF Len(g.playerHands) # 1 THEN FALSE
  ELSE Len(g.playerHands[1]) = 2

\* A call's result: the engine after the call and the value returned
\* (TRUE for the void methods).
Res(g, ret) == [g |-> g, ret |-> ret]

\* BlackjackGame::startRound
startRound(g) ==
  LET g0 == checkAndReshuffle(g)
  IN  { LET ph == <<c1, c2>>
            dh == <<c3, c4>>
            g1 == [g0 EXCEPT !.currentIndex = @ + 4,
                             !.playerHands = <<ph>>,
                             !.dealerHand = dh,
                             !.currentHandIndex = 0,
                             !.splitUsed = FALSE,
                             !.roundComplete = FALSE,
                             !.outcome = "NONE",
                             !.outcomes = <<>>,
                             !.doubledByHand = <<FALSE>>]
        IN  IF isBlackjack(ph) \/ isBlackjack(dh)
            THEN Res([g1 EXCEPT !.roundComplete = TRUE,
                                !.outcome = determineOutcome(ph, dh),
                                !.outcomes = <<determineOutcome(ph, dh)>>], TRUE)
            ELSE Res(g1, TRUE)
        : c1 \in g0.shoe, c2 \in g0.shoe, c3 \in g0.shoe, c4 \in g0.shoe }

\* Faulty variant of hit: a bust hand stays the hand in play.
hit_StaysOnBust(g) ==
  IF g.roundComplete THEN {Res(g, FALSE)}
  ELSE { Res([g EXCEPT !.playerHands[g.currentHandIndex + 1] = Append(@, c),
                       !.currentIndex = @ + 1], TRUE)
         : c \in g.shoe }

\* BlackjackGame::hit
hit(g) ==
  IF g.roundComplete THEN {Res(g, FALSE)}
  ELSE UNION { LET g1 == [g EXCEPT !.playerHands[g.currentHandIndex + 1] = Append(@, c),
                                   !.currentIndex = @ + 1]
               IN  IF isBust(getPlayerHand(g1))
                   THEN {Res(g2, TRUE) : g2 \in advanceOrFinish(g1)}
                   ELSE {Res(g1, TRUE)}
               : c \in g.shoe }

\* Faulty variant of stand: the round is finished without the dealer playing.
stand_DealerStays(g) ==
  IF g.roundComplete THEN {Res(g, TRUE)}
  ELSE IF g.currentHandIndex + 1 < Len(g.playerHands)
  THEN {Res([g EXCEPT !.currentHandIndex = @ + 1], TRUE)}
  ELSE { LET outs == [i \in 1..Len(g.playerHands) |->
                        determineOutcome(g.playerHands[i], g.dealerHand)]
         IN  Res([g EXCEPT !.outcomes = outs, !.outcome = outs[1],
                           !.roundComplete = TRUE], TRUE) }

\* BlackjackGame::stand
stand(g) ==
  IF g.roundComplete THEN {Res(g, TRUE)}
  ELSE {Res(g2, TRUE) : g2 \in advanceOrFinish(g)}

\* BlackjackGame::doubleDown
doubleDown(g) ==
  IF ~canDoubleDown(g) THEN {Res(g, FALSE)}
  ELSE UNION { LET g1 == [g EXCEPT !.doubledByHand[g.currentHandIndex + 1] = TRUE,
                                   !.playerHands[g.currentHandIndex + 1] = Append(@, c),
                                   !.currentIndex = @ + 1]
               IN  {Res(g2, TRUE) : g2 \in advanceOrFinish(g1)}
               : c \in g.shoe }

\* BlackjackGame::surrender
surrender(g) ==
  IF ~canSurrender(g) THEN {Res(g, FALSE)}
  ELSE {Res([g EXCEPT !.outcome = "SURRENDER",
                      !.outcomes = <<"SURRENDER">>,
                      !.roundComplete = TRUE], TRUE)}

\* Faulty variant of split: no doubled flag is added for the second hand.
split_NoDoubledFlag(g) ==
  IF ~canSplit(g) THEN {Res(g, FALSE)}
  ELSE { LET first == g.playerHands[1]
             secondHand == <<first[2], c1>>
             firstHand == <<first[1], c2>>
         IN  Res([g EXCEPT !.playerHands = <<firstHand, secondHand>>,
                           !.splitUsed = TRUE,
                           !.currentHandIndex = 0,
                           !.currentIndex = @ + 2], TRUE)
         : c1 \in g.shoe, c2 \in g.shoe }

\* BlackjackGame::split (with Hand::split)
split(g) ==
  IF ~canSplit(g) THEN {Res(g, FALSE)}
  ELSE { LET first == g.playerHands[1]
             secondCard == first[2]
             secondHand == <<secondCard, c1>>
             firstHand == <<first[1], c2>>
         IN  Res([g EXCEPT !.playerHands = <<firstHand, secondHand>>,
                           !.doubledByHand = Append(@, FALSE),
                           !.splitUsed = TRUE,
                           !.currentHandIndex = 0,
                           !.currentIndex = @ + 2], TRUE)
         : c1 \in g.shoe, c2 \in g.shoe }

\* BlackjackGame::reset
reset(g) ==
  {Res([deckReset(g) EXCEPT !.playerHands = << <<>> >>,
                            !.doubledByHand = <<FALSE>>,
                            !.dealerHand = <<>>,
                            !.currentHandIndex = 0,
                            !.splitUsed = FALSE,
                            !.roundComplete = FALSE,
                            !.outcome = "NONE",
                            !.outcomes = <<>>], TRUE)}

\* Faulty variant of getOutcome: the round-complete test is missing.
getOutcome_Unchecked(g) ==
  Res(g, IF g.outcome = "NONE" THEN "bad_optional_access" ELSE g.outcome)

\* BlackjackGame::getOutcome (const): the value returned, or the exception thrown.
getOutcome(g) ==
  IF ~g.roundComplete THEN Res(g, "logic_error")
  ELSE Res(g, IF g.outcome = "NONE" THEN "bad_optional_access" ELSE g.outcome)

\* BlackjackGame::getOutcomes
getOutcomes(g) == g.outcomes

\* BlackjackGame::getWasDoubledByHand
getWasDoubledByHand(g) == g.doubledByHand

\* The rule sets the engine is run under: the four combinations of
\* dealerHitsSoft17 and surrender of the presets (GameRules::vegasStrip,
\* downtown, atlanticCity, singleDeck), which all set doubleAfterSplit, and the
\* default rules with doubleAfterSplit off.  Four decks hold sixteen cards of
\* each rank, more than a round can take; maxSplits is the default.
RuleSets ==
  { r \in [numDecks : {4}, dealerHitsSoft17 : BOOLEAN, surrender : BOOLEAN,
           doubleAfterSplit : BOOLEAN, maxSplits : {3}, penetration : {PenetrationPct}] :
      r.doubleAfterSplit \/ (r.dealerHitsSoft17 /\ ~r.surrender) }

\* BlackjackGame::BlackjackGame
\* ---------------------------------------------------------------- fixed point
\* The value 1.0.  Every learn call halves a Q-value at most twice, so the
\* values met within MaxLearnSteps calls, and one call beyond, are whole.
Unit == 2 ^ (2 * (MaxLearnSteps + 1) + 1)

\* A hyperparameter as a fraction.
Frac(n, d) == [num |-> n, den |-> d]
\* f * x for a fraction f.
Mul(f, x) == (f.num * x) \div f.den

Max(S) == CHOOSE m \in S : \A x \in S : m >= x

\* ---------------------------------------------------------------- GameStateConverter
\* ai/State.hpp: State(total, upcard, ace, canSplit, canDouble)
State(playerTotal, dealerUpCard, hasUsableAce, cSplit, cDouble) ==
  [playerTotal |-> playerTotal, dealerUpCard |-> dealerUpCard,
   hasUsableAce |-> hasUsableAce, canSplit |-> cSplit, canDouble |-> cDouble]

\* State::State(), the default-constructed state of a terminal experience.
defaultState == State(0, 0, FALSE, FALSE, FALSE)

\* ai/Agent.hpp Experience, with the validNextActions the trainer passes.
Experience(s, a, r, ns, d, vna) ==
  [state |-> s, action |-> a, reward |-> r, nextState |-> ns, done |-> d,
   validNextActions |-> vna]

\* GameStateConverter::toAIState (the dealer hand is never empty where it is called)
toAIState(playerHand, dealer, allowSplit, allowDouble) ==
  LET playerValue == getValue(playerHand)
      dealerUpCard == IF IsAce(dealer[1]) THEN 1 ELSE CardValue(dealer[1])
  IN  State(playerValue.total, dealerUpCard, playerValue.isSoft,
            allowSplit /\ handCanSplit(playerHand),
            allowDouble /\ (Len(playerHand) = 2))

\* Faulty variant of getValidActions: DOUBLE is offered on every two-card hand,
\* whatever canDoubleDown() says.
getValidActions_DoubleAnyTwoCards(playerHand, allowSplit, allowDouble, allowSurrender) ==
  <<"HIT", "STAND">>
    \o (IF Len(playerHand) = 2 THEN <<"DOUBLE">> ELSE <<>>)
    \o (IF allowSplit /\ handCanSplit(playerHand) THEN <<"SPLIT">> ELSE <<>>)
    \o (IF allowSurrender /\ Len(playerHand) = 2 THEN <<"SURRENDER">> ELSE <<>>)

\* GameStateConverter::getValidActions
getValidActions(playerHand, allowSplit, allowDouble, allowSurrender) ==
  <<"HIT", "STAND">>
    \o (IF allowDouble /\ Len(playerHand) = 2 THEN <<"DOUBLE">> ELSE <<>>)
    \o (IF allowSplit /\ handCanSplit(playerHand) THEN <<"SPLIT">> ELSE <<>>)
    \o (IF allowSurrender /\ Len(playerHand) = 2 THEN <<"SURRENDER">> ELSE <<>>)

\* GameStateConverter::executeAction
executeAction(action, g) ==
  CASE action = "HIT" -> hit(g)
    [] action = "STAND" -> stand(g)
    [] action = "DOUBLE" ->
         UNION { IF r.ret THEN {r} ELSE hit(r.g) : r \in doubleDown(g) }
    [] action = "SPLIT" -> split(g)
    [] action = "SURRENDER" -> surrender(g)

\* Faulty variant of outcomeToReward: a doubled hand counts three times.
outcomeToReward_TripleOnDouble(o, wasDoubled) ==
  LET r == CASE o = "PLAYER_BLACKJACK" -> (3 * Unit) \div 2
             [] o \in {"PLAYER_WIN", "DEALER_BUST"} -> Unit
             [] o = "PUSH" -> 0
             [] o \in {"DEALER_WIN", "PLAYER_BUST"} -> -Unit
             [] o = "SURRENDER" -> -(Unit \div 2)
             [] OTHER -> 0
  IN  IF wasDoubled THEN r * 3 ELSE r

\* GameStateConverter::outcomeToReward
outcomeToReward(o, wasDoubled) ==
  LET r == CASE o = "PLAYER_BLACKJACK" -> (3 * Unit) \div 2
             [] o \in {"PLAYER_WIN", "DEALER_BUST"} -> Unit
             [] o = "PUSH" -> 0
             [] o \in {"DEALER_WIN", "PLAYER_BUST"} -> -Unit
             [] o = "SURRENDER" -> -(Unit \div 2)
             [] OTHER -> 0
  IN  IF wasDoubled THEN r * 2 ELSE r

\* ---------------------------------------------------------------- Trainer
RECURSIVE finalReward(_, _, _)
\* Trainer::finishEpisode, the first loop: the rewards of hands i.. summed.
finalReward(outs, wasDoubledByHand, i) ==
  IF i > Len(outs) THEN 0
  ELSE outcomeToReward(outs[i], i <= Len(wasDoubledByHand) /\ wasDoubledByHand[i])
       + finalReward(outs, wasDoubledByHand, i + 1)

\* Faulty variant of finishEpisode: the final reward goes to the first experience.
finishEpisode_RewardFirst(exps, outs, wasDoubledByHand) ==
  [i \in 1..Len(exps) |->
     [exps[i] EXCEPT !.reward =
        IF i = 1 THEN finalReward(outs, wasDoubledByHand, 1) ELSE 0]]

\* Trainer::finishEpisode: the experiences as they are passed to Agent::learn,
\* in order, the final reward on the last one.
finishEpisode(exps, outs, wasDoubledByHand) ==
  [i \in 1..Len(exps) |->
     [exps[i] EXCEPT !.reward =
        IF i = Len(exps) THEN finalReward(outs, wasDoubledByHand, 1) ELSE 0]]

\* Trainer::runEpisode, the stats it returns for a finished round with the
\* experiences captured (none when the round was complete at the deal).
runEpisodeStats(exps, outs, wasDoubled) ==
  [outcome |-> IF outs = <<>> THEN "PUSH" ELSE outs[1],
   reward |-> finalReward(outs, wasDoubled, 1),
   handsPlayed |-> Len(exps)]

\* ---------------------------------------------------------------- PolicyTable
\* The actions a Q-table row holds (PolicyTable::NUM_ACTIONS entries).
QActions == {"HIT", "STAND", "DOUBLE", "SPLIT"}

\* QLearningAgent constructs qTable_(0.0).
defaultValue == 0

\* std::numeric_limits<double>::lowest(), below every value met.
lowest == -(Unit * Unit)

\* A table with no visited state.
EmptyTable == [s \in {} |-> [a \in QActions |-> 0]]

\* PolicyTable::get
get(t, s, a) == IF s \notin DOMAIN t THEN defaultValue_ ELSE t[s][a]

\* PolicyTable::set: operator[] inserts a zero-filled row for a new state.
set(t, s, a, v) ==
  IF s \in DOMAIN t
  THEN [t EXCEPT ![s][a] = v]
  ELSE [x \in DOMAIN t \cup {s} |->
          IF x = s THEN [b \in QActions |-> IF b = a THEN v ELSE 0] ELSE t[x]]

\* PolicyTable::getMaxQ
getMaxQ(t, s, validActions) ==
  Max({lowest} \cup {get(t, s, validActions[i]) : i \in 1..Len(validActions)})

\* ---------------------------------------------------------------- QLearningAgent
\* The agent's fields as one record.
A == [params |-> params, qTable |-> qTable, epsilon |-> epsilon, stepCount |-> stepCount]

SetAgent(ag) ==
  /\ params' = ag.params
  /\ qTable' = ag.qTable
  /\ epsilon' = ag.epsilon
  /\ stepCount' = ag.stepCount

\* QLearningAgent::decayEpsilon
decayEpsilon(ag) ==
  LET e == Mul(ag.params.epsilonDecay, ag.epsilon)
  IN  [ag EXCEPT !.epsilon = IF e >= ag.params.epsilonMin THEN e ELSE ag.params.epsilonMin]

\* QLearningAgent::learn; the maximum is taken over allActions.
learn(ag, experience) ==
  LET currentQ == get(ag.qTable, experience.state, experience.action)
      allActions == <<"HIT", "STAND", "DOUBLE", "SPLIT">>
      maxNextQ == getMaxQ(ag.qTable, experience.nextState, allActions)
      targetQ == IF experience.done THEN experience.reward
                 ELSE experience.reward + Mul(ag.params.discountFactor, maxNextQ)
      newQ == currentQ + Mul(ag.params.learningRate, targetQ - currentQ)
      ag1 == [ag EXCEPT !.qTable = set(@, experience.state, experience.action, newQ)]
  IN  [decayEpsilon(ag1) EXCEPT !.stepCount = @ + 1]

\* Hyperparameters accepted by Hyperparameters::isValid.
ParamSets ==
  [learningRate : {Frac(1, 2)}, discountFactor : {Frac(1, 2), Frac(1, 1)},
   epsilon : {Unit}, epsilonDecay : {Frac(1, 2)}, epsilonMin : {Unit \div 4}]

\* The agent the trainer is run with.
defaultParams == CHOOSE p \in ParamSets : p.discountFactor = Frac(1, 1)

\* The states of the experiences learned from: a three-card hard 16 and a
\* two-card hard 12, both against a ten.
LearnStates == {State(16, 10, FALSE, FALSE, FALSE), State(12, 10, FALSE, FALSE, TRUE)}

\* The valid actions the trainer records for an encoded state.
validActionsOf(s) ==
  <<"HIT", "STAND">> \o (IF s.canDouble THEN <<"DOUBLE">> ELSE <<>>)
                     \o (IF s.canSplit THEN <<"SPLIT">> ELSE <<>>)

\* The experiences an agent is given: terminal ones with a reward of +1 or -1,
\* non-terminal ones with reward 0 and the next state's valid actions.
ExperienceInputs ==
  UNION { LET valid == validActionsOf(s)
          IN  { Experience(s, valid[k], r, defaultState, TRUE, <<>>) :
                  k \in 1..Len(valid), r \in {Unit, -Unit} }
              \cup
              { Experience(s, valid[k], 0, ns, FALSE, validActionsOf(ns)) :
                  k \in 1..Len(valid), ns \in LearnStates }
          : s \in LearnStates }

\* EvaluationResult::EvaluationResult: the counters of a result (the rates are
\* quotients of the counters by numGames; totalReward is the local sum of
\* Evaluator::evaluate).
EvaluationResult ==
  [gamesPlayed |-> 0, wins |-> 0, losses |-> 0, pushes |-> 0, blackjacks |-> 0,
   busts |-> 0, totalReward |-> 0]

\* No evaluation has been started.
InitEvaluator ==
  /\ evalPc = "idle"
  /\ numGames = 0
  /\ gameIndex = 0
  /\ result = EvaluationResult

\* The table of an agent: default value 0.0, and nothing recorded as set.
InitPolicyTable ==
  /\ defaultValue_ = defaultValue
  /\ everSet = {}

\* No Q-table file has been written; the second table is empty.
NoFile == [version |-> 0, tableSize |-> 0, entries |-> <<>>]

InitNoFile ==
  /\ savedFile = NoFile
  /\ table2 = EmptyTable

\* TrainingConfig: the fields the training loop reads.
TrainingConfig(nEpisodes, evalFreq, checkpointFreq, patience, minImprove) ==
  [numEpisodes |-> nEpisodes, evalFrequency |-> evalFreq,
   checkpointFrequency |-> checkpointFreq,
   earlyStoppingPatience |-> patience, minImprovement |-> minImprove]

\* The configuration of the trainers that are not run in a loop.
defaultConfig == TrainingConfig(1, 1, 1, 1, 0)

\* Hand::Hand: a hand of its own, holding no card.
InitHand == hand = <<>>

\* The order of the shoe is not followed where only the ranks dealt matter.
InitDeck == cards_ = <<>>

\* An Evaluator just constructed: no state looked up in the basic strategy and
\* no comparison with it made.
InitStrategy ==
  /\ queryState = defaultState
  /\ queryAction = "NONE"
  /\ optimalAction = "NONE"
  /\ correct = FALSE
  /\ accuracies = <<>>

\* Trainer::Trainer: not paused, no stop requested, no evaluation made yet, no
\* episode run and no checkpoint written.
InitTrainer ==
  /\ config = defaultConfig
  /\ loopPc = "idle"
  /\ episode = 0
  /\ endEpisode = 0
  /\ totalEpisodes = 0
  /\ episodesSinceImprovement = 0
  /\ bestWinRate = 0
  /\ resultWinRate = 0
  /\ shouldStop = FALSE
  /\ checkpoints = {}
  /\ episodeExperiences = 0
  /\ episodeLearned = 0
  /\ episodesRun = 0
  /\ evaluations = 0
  /\ startedAfterStop = 0

\* ---------------------------------------------------------------- specifications
Init ==
  /\ rules \in RuleSets
  /\ shoe \in ShoeSets
  /\ currentIndex = 0
  /\ playerHands = << <<>> >>
  /\ currentHandIndex = 0
  /\ splitUsed = FALSE
  /\ dealerHand = <<>>
  /\ roundComplete = FALSE
  /\ outcome = "NONE"
  /\ outcomes = <<>>
  /\ doubledByHand = <<>>
  /\ pc = "idle"
  /\ experiences = <<>>
  /\ learnLog = <<>>
  /\ params = defaultParams
  /\ qTable = EmptyTable
  /\ epsilon = params.epsilon
  /\ stepCount = 0
  /\ InitEvaluator
  /\ InitPolicyTable
  /\ InitNoFile
  /\ InitTrainer
  /\ InitStrategy
  /\ InitHand
  /\ InitDeck

\* A freshly constructed agent beside an engine that is never called.
InitLearn ==
  /\ rules \in {r \in RuleSets : r.dealerHitsSoft17 /\ ~r.surrender /\ r.doubleAfterSplit}
  /\ shoe = {ACE, JACK}
  /\ currentIndex = 0
  /\ playerHands = << <<>> >>
  /\ currentHandIndex = 0
  /\ splitUsed = FALSE
  /\ dealerHand = <<>>
  /\ roundComplete = FALSE
  /\ outcome = "NONE"
  /\ outcomes = <<>>
  /\ doubledByHand = <<>>
  /\ pc = "idle"
  /\ experiences = <<>>
  /\ learnLog = <<>>
  /\ params \in ParamSets
  /\ qTable = EmptyTable
  /\ epsilon = params.epsilon
  /\ stepCount = 0
  /\ InitEvaluator
  /\ InitPolicyTable
  /\ InitNoFile
  /\ InitTrainer
  /\ InitStrategy
  /\ InitHand
  /\ InitDeck

\* One engine call with the given possible results; a call that returns false
\* leaves the engine as it was.
Call(results) ==
  \E r \in results :
    /\ Dealt(r.g)
    /\ SetGame(r.g)
    /\ UNCHANGED <<trainVars, agentVars, evalVars, tableVars, fileVars, loopVars, strategyVars, handVars, deckVars>>

\* The engine's callers (Trainer::runEpisode, Evaluator::playGame, play.cpp, the
\* unit tests) make a player call only on a round that startRound has dealt.
RoundDealt == dealerHand # <<>>

StartRound ==
  \E r \in startRound(G) :
    /\ Dealt(r.g)
    /\ SetGame(r.g)
    /\ UNCHANGED <<trainVars, agentVars, evalVars, tableVars, fileVars, loopVars, strategyVars, handVars, deckVars>>
Hit ==
  /\ RoundDealt
  /\ roundComplete \/ hitsTaken(G) < MaxHits
  /\ Call(hit(G))
Stand == RoundDealt /\ Call(stand(G))
DoubleDown == RoundDealt /\ Call(doubleDown(G))
Surrender == RoundDealt /\ Call(surrender(G))
Split == RoundDealt /\ Call(split(G))
Reset ==
  \E r \in reset(G) :
    /\ SetGame(r.g)
    /\ UNCHANGED <<trainVars, agentVars, evalVars, tableVars, fileVars, loopVars, strategyVars, handVars, deckVars>>

Next == StartRound \/ Hit \/ Stand \/ DoubleDown \/ Surrender \/ Split \/ Reset

\* The round engine under every sequence of calls.
Spec == Init /\ [][Next]_vars

\* ---------------------------------------------------------------- Trainer steps
\* Trainer::runEpisode up to playAgentTurn: deal, and finish at once on a natural
\* (finishEpisode then has no experience to learn from).
RunEpisode ==
  /\ pc = "idle"
  /\ \E r \in startRound(G) :
       /\ Dealt(r.g)
       /\ SetGame(r.g)
       /\ experiences' = <<>>
       /\ learnLog' = IF r.g.roundComplete
                      THEN finishEpisode(<<>>, r.g.outcomes, r.g.doubledByHand)
                      ELSE <<>>
       /\ pc' = IF r.g.roundComplete THEN "idle" ELSE "turn"
  /\ UNCHANGED <<agentVars, evalVars, tableVars, fileVars, loopVars, strategyVars, handVars, deckVars>>

\* One iteration of the loop of Trainer::playAgentTurn.  Agent::chooseAction
\* (epsilon-greedy) may return any of the valid actions.
PlayAgentTurn ==
  /\ pc = "turn"
  /\ ~roundComplete
  /\ LET playerHand == getPlayerHand(G)
         currentState == toAIState(playerHand, getDealerHand(G, TRUE),
                                   canSplit(G), canDoubleDown(G))
         validActions == getValidActions(playerHand, canSplit(G), canDoubleDown(G),
                                         canSurrender(G))
     IN  \E k \in 1..Len(validActions) :
           LET action == validActions[k]
           IN  /\ action = "HIT" => hitsTaken(G) < MaxHits
               /\ \E r \in executeAction(action, G) :
                    LET g2 == r.g
                        nextState ==
                          IF ~g2.roundComplete
                          THEN toAIState(getPlayerHand(g2), getDealerHand(g2, TRUE),
                                         canSplit(g2), canDoubleDown(g2))
                          ELSE defaultState
                        nextValidActions ==
                          IF ~g2.roundComplete
                          THEN getValidActions(getPlayerHand(g2), canSplit(g2),
                                               canDoubleDown(g2), canSurrender(g2))
                          ELSE <<>>
                    IN  /\ Dealt(g2)
                        /\ SetGame(g2)
                        /\ experiences' =
                             Append(experiences,
                                    Experience(currentState, action, 0, nextState,
                                               g2.roundComplete, nextValidActions))
  /\ UNCHANGED <<pc, learnLog, agentVars, evalVars, tableVars, fileVars, loopVars, strategyVars, handVars, deckVars>>

\* The end of Trainer::runEpisode: the loop has ended and finishEpisode assigns
\* the rewards and passes every experience to Agent::learn.
FinishEpisode ==
  /\ pc = "turn"
  /\ roundComplete
  /\ experiences' = finishEpisode(experiences, outcomes, doubledByHand)
  /\ learnLog' = learnLog \o experiences'
  /\ pc' = "idle"
  /\ UNCHANGED <<gameVars, agentVars, evalVars, tableVars, fileVars, loopVars, strategyVars, handVars, deckVars>>

TrainNext == RunEpisode \/ PlayAgentTurn \/ FinishEpisode

\* Episodes run by the trainer, one after another.
SpecTrain == Init /\ [][TrainNext]_vars

\* ---------------------------------------------------------------- Agent steps
\* One call of QLearningAgent::learn.
Learn ==
  /\ stepCount < MaxLearnSteps
  /\ \E e \in ExperienceInputs : SetAgent(learn(A, e))
  /\ UNCHANGED <<gameVars, trainVars, evalVars, tableVars, fileVars, loopVars, strategyVars, handVars, deckVars>>

LearnNext == Learn

\* An agent learning from any sequence of experiences.
SpecLearn == InitLearn /\ [][LearnNext]_vars

\* ================================================================ claims: training
\* The reward of one hand as C1 lists it.
HandReward(o, doubled) ==
  LET r == IF o = "PLAYER_BLACKJACK" THEN Unit + Unit \div 2
           ELSE IF o = "PLAYER_WIN" \/ o = "DEALER_BUST" THEN Unit
           ELSE IF o = "PUSH" THEN 0
           ELSE IF o = "SURRENDER" THEN -(Unit \div 2)
           ELSE -Unit
  IN  IF doubled THEN 2 * r ELSE r

\* The reward of a finished round: the sum over its (one or two) hands.
RoundReward ==
  IF Len(outcomes) = 1 THEN HandReward(outcomes[1], doubledByHand[1])
  ELSE HandReward(outcomes[1], doubledByHand[1]) + HandReward(outcomes[2], doubledByHand[2])

\* C1: the trainer passes no experience to learn while the agent's turn is
\* being played; when the episode has ended, learn has been called exactly
\* once per captured experience, in the order the actions were taken and with
\* the round complete; the last experience carries the sum of the hands'
\* rewards and done = true, every earlier one reward 0 and done = false.
C1_LearnAtEpisodeEnd ==
  /\ pc = "turn" => learnLog = <<>>
  /\ learnLog # <<>> => roundComplete
  /\ (pc = "idle" /\ RoundDealt) =>
       LET n == Len(learnLog)
       IN  /\ roundComplete
           /\ n = Len(experiences)
           /\ \A i \in 1..n :
                /\ learnLog[i].state = experiences[i].state
                /\ learnLog[i].action = experiences[i].action
                /\ learnLog[i].nextState = experiences[i].nextState
                /\ learnLog[i].validNextActions = experiences[i].validNextActions
           /\ \A i \in 1..(n - 1) : learnLog[i].reward = 0 /\ learnLog[i].done = FALSE
           /\ n > 0 => learnLog[n].reward = RoundReward /\ learnLog[n].done = TRUE

\* An episode with a split ended: three or more experiences were learned, the
\* last one carrying the summed reward of two winning hands.
C1_Witness ==
  /\ pc = "idle" /\ roundComplete /\ splitUsed
  /\ Len(learnLog) >= 3
  /\ learnLog[Len(learnLog)].reward = 2 * Unit

\* The maximum of the next state's Q-values over the experience's valid next
\* actions, as C2 states the target.
MaxOverValid(t, e) ==
  Max({get(t, e.nextState, e.validNextActions[i]) : i \in 1..Len(e.validNextActions)})

\* C2: learn moves Q(s,a) to q + alpha * (target - q), where target is r on a
\* terminal experience and r + gamma * max of Q(s',a') over exactly the
\* experience's validNextActions otherwise, and changes no other entry.
C2_LearnTarget ==
  \A e \in ExperienceInputs :
    LET q == get(qTable, e.state, e.action)
        target == IF e.done THEN e.reward
                  ELSE e.reward + Mul(params.discountFactor, MaxOverValid(qTable, e))
        t2 == learn(A, e).qTable
    IN  /\ get(t2, e.state, e.action) = q + Mul(params.learningRate, target - q)
        /\ \A s \in LearnStates : \A a \in QActions :
             (s # e.state \/ a # e.action) => get(t2, s, a) = get(qTable, s, a)

\* ================================================================ claims: round engine
\* A two-card hand of an Ace and a ten-valued card.
Natural(h) ==
  /\ Len(h) = 2
  /\ \/ h[1] = ACE /\ h[2] >= 10
     \/ h[2] = ACE /\ h[1] >= 10

\* The engine is as startRound leaves an unfinished round: one two-card hand
\* against a two-card dealer, nothing played yet.
FreshlyDealt(g) ==
  /\ Len(g.playerHands) = 1 /\ Len(g.playerHands[1]) = 2
  /\ Len(g.dealerHand) = 2
  /\ g.currentHandIndex = 0 /\ ~g.splitUsed /\ ~g.roundComplete
  /\ g.outcome = "NONE" /\ g.outcomes = <<>> /\ g.doubledByHand = <<FALSE>>

\* h2 is h with exactly one card added at the end.
OneCardAdded(h, h2) == Len(h2) = Len(h) + 1 /\ SubSeq(h2, 1, Len(h)) = h

\* C3: startRound leaves the round complete iff the player's or the dealer's
\* two-card hand is a natural, and then records exactly one outcome: PUSH when
\* both are naturals, PLAYER_BLACKJACK when only the player's is, DEALER_WIN
\* when only the dealer's is; otherwise the round is in progress with no
\* outcome recorded.
C3_StartRoundNaturals ==
  \A r \in startRound(G) :
    LET g2 == r.g
        pbj == Natural(g2.playerHands[1])
        dbj == Natural(g2.dealerHand)
    IN  /\ Len(g2.playerHands) = 1
        /\ g2.roundComplete <=> (pbj \/ dbj)
        /\ (pbj /\ dbj) => g2.outcomes = <<"PUSH">> /\ g2.outcome = "PUSH"
        /\ (pbj /\ ~dbj) =>
             g2.outcomes = <<"PLAYER_BLACKJACK">> /\ g2.outcome = "PLAYER_BLACKJACK"
        /\ (~pbj /\ dbj) =>
             g2.outcomes = <<"DEALER_WIN">> /\ g2.outcome = "DEALER_WIN"
        /\ (~pbj /\ ~dbj) => g2.outcomes = <<>> /\ g2.outcome = "NONE"

\* A round that startRound completed with both hands naturals.
C3_Witness ==
  /\ roundComplete /\ outcomes = <<"PUSH">>
  /\ Len(playerHands) = 1 /\ Natural(playerHands[1]) /\ Natural(dealerHand)

\* The round was completed by startRound on the initial cards.
DealtNatural ==
  /\ ~splitUsed
  /\ Natural(playerHands[1]) \/ Natural(dealerHand)

\* Resolution of one hand by totals alone, as C4 states it.
ResolveByTotals(playerHand, dealer) ==
  IF getTotal(playerHand) > 21 THEN "PLAYER_BUST"
  ELSE IF getTotal(dealer) > 21 THEN "DEALER_BUST"
  ELSE IF getTotal(playerHand) > getTotal(dealer) THEN "PLAYER_WIN"
  ELSE IF getTotal(playerHand) < getTotal(dealer) THEN "DEALER_WIN"
  ELSE "PUSH"

\* C4: when a round finishes after player actions, every player hand is
\* resolved by totals: over 21 is PLAYER_BUST even if the dealer busts too,
\* otherwise a dealer over 21 is DEALER_BUST, otherwise the higher total wins
\* and equal totals push.
C4_ResolvedByTotals ==
  (RoundDealt /\ roundComplete /\ outcome # "SURRENDER" /\ ~DealtNatural) =>
    /\ Len(outcomes) = Len(playerHands)
    /\ \A i \in 1..Len(playerHands) :
         outcomes[i] = ResolveByTotals(playerHands[i], dealerHand)

\* The dealer must take a card on hand h, as C5 states the rule.
DealerDraws(h, hitsSoft17) ==
  \/ getTotal(h) < 17
  \/ getTotal(h) = 17 /\ isSoft(h) /\ hitsSoft17

\* The player calls that can finish a round through the dealer's play.
FinishingCalls(g) == hit(g) \cup stand(g) \cup doubleDown(g)

\* C5: whenever the dealer plays, it draws one card at a time exactly while
\* its total is below 17 or is a soft 17 with dealerHitsSoft17, and stops once
\* bust: the final hand is bust or at least 17 and not a soft 17 under
\* dealerHitsSoft17, and no card was drawn on a hard 17, on a soft 17 without
\* dealerHitsSoft17, or on 18 or more.  A call that does not finish the round
\* leaves the dealer's hand alone.
C5_DealerPolicy ==
  (RoundDealt /\ ~roundComplete) =>
    \A r \in FinishingCalls(G) :
      LET d == r.g.dealerHand
          h17 == rules.dealerHitsSoft17
      IN  IF r.g.roundComplete
          THEN /\ Len(d) >= Len(dealerHand)
               /\ SubSeq(d, 1, Len(dealerHand)) = dealerHand
               /\ \A k \in Len(dealerHand)..(Len(d) - 1) :
                    LET p == SubSeq(d, 1, k)
                    IN  /\ DealerDraws(p, h17)
                        /\ getTotal(p) <= 17
                        /\ getTotal(p) = 17 => (isSoft(p) /\ h17)
               /\ ~DealerDraws(d, h17)
               /\ getTotal(d) > 21 \/ getTotal(d) >= 17
               /\ h17 => ~(getTotal(d) = 17 /\ isSoft(d))
               /\ r.g.currentIndex - currentIndex =
                    (playerCards(r.g.playerHands) - playerCards(playerHands))
                    + (Len(d) - Len(dealerHand))
          ELSE d = dealerHand

\* The dealer drew on a soft 17 under dealerHitsSoft17 and the round is over.
C5_Witness ==
  /\ roundComplete /\ rules.dealerHitsSoft17
  /\ Len(dealerHand) >= 3
  /\ getTotal(SubSeq(dealerHand, 1, 2)) = 17 /\ isSoft(SubSeq(dealerHand, 1, 2))

\* C6: hit on an in-progress round returns true and adds exactly one card to
\* the current hand, changing no other hand; if the hand is now bust, play
\* moves to the next hand when there is one and the round is finished
\* otherwise; if it is not bust, currentHandIndex and roundComplete stay.
C6_Hit ==
  (RoundDealt /\ ~roundComplete) =>
    \A r \in hit(G) :
      LET i == currentHandIndex + 1
          g2 == r.g
      IN  /\ r.ret = TRUE
          /\ Len(g2.playerHands) = Len(playerHands)
          /\ OneCardAdded(playerHands[i], g2.playerHands[i])
          /\ \A j \in 1..Len(playerHands) :
               j # i => g2.playerHands[j] = playerHands[j]
          /\ IF getTotal(g2.playerHands[i]) > 21
             THEN IF i < Len(playerHands)
                  THEN g2.currentHandIndex = currentHandIndex + 1 /\ ~g2.roundComplete
                  ELSE g2.currentHandIndex = currentHandIndex /\ g2.roundComplete
             ELSE g2.currentHandIndex = currentHandIndex /\ ~g2.roundComplete

\* After a split, a hit busted the first hand and play moved to the second.
C6_Witness ==
  /\ splitUsed /\ ~roundComplete /\ currentHandIndex = 1
  /\ Len(playerHands[1]) = 3 /\ getTotal(playerHands[1]) > 21

C9_NoDoubleAfterSplit ==
  (RoundDealt /\ splitUsed) =>
    /\ ~canDoubleDown(G)
    /\ \A r \in doubleDown(G) : ~r.ret /\ r.g = G
    /\ \A i \in 1..Len(doubledByHand) : ~doubledByHand[i]

\* Playing the second two-card hand of a split under doubleAfterSplit.
C9_Witness ==
  /\ splitUsed /\ ~roundComplete /\ currentHandIndex = 1
  /\ Len(playerHands[2]) = 2 /\ rules.doubleAfterSplit

engineCall(action, g) ==
  CASE action = "HIT" -> hit(g)
    [] action = "STAND" -> stand(g)
    [] action = "DOUBLE" -> doubleDown(g)
    [] action = "SPLIT" -> split(g)
    [] action = "SURRENDER" -> surrender(g)

\* The actions offered to the agent in the current state of the round.
offeredActions ==
  LET v == getValidActions(getPlayerHand(G), canSplit(G), canDoubleDown(G),
                           canSurrender(G))
  IN  { v[k] : k \in 1..Len(v) }

\* C11: whenever the trainer records an experience, its action was one of the
\* offered actions; DOUBLE, SPLIT and SURRENDER were offered only when
\* canDoubleDown(), canSplit() and canSurrender() held; the engine method that
\* the action names cannot return false in that state (so neither the
\* DOUBLE-to-HIT fallback nor a refused split or surrender occurs); and the
\* round moved exactly as that engine method moves it.
C11_ActionsAccepted ==
  [][ Len(experiences') = Len(experiences) + 1 =>
        LET e == experiences'[Len(experiences')]
        IN  /\ e.action \in offeredActions
            /\ ("DOUBLE" \in offeredActions => canDoubleDown(G))
            /\ ("SPLIT" \in offeredActions => canSplit(G))
            /\ ("SURRENDER" \in offeredActions => canSurrender(G))
            /\ \A r \in engineCall(e.action, G) : r.ret
            /\ G' \in { r.g : r \in engineCall(e.action, G) } ]_vars

\* The agent chose DOUBLE on the dealt hand and the engine doubled it.
C11_Witness ==
  /\ pc = "turn"
  /\ Len(experiences) = 1
  /\ experiences[1].action = "DOUBLE"
  /\ experiences[1].state.canDouble
  /\ doubledByHand = <<TRUE>>
  /\ Len(playerHands[1]) = 3

\* ---------------------------------------------------------------------------
\* Evaluator::evaluate.  The engine variables are the local game of evaluate,
\* constructed at its entry; the agent is any ai::Agent, so chooseAction may
\* return any of the valid actions.

\* The switch of Evaluator::evaluate for one outcome.
countOutcome(res, o, doubled) ==
  LET r1 == CASE o \in {"PLAYER_WIN", "DEALER_BUST"} -> [res EXCEPT !.wins = @ + 1]
              [] o = "PLAYER_BLACKJACK" -> [res EXCEPT !.wins = @ + 1, !.blackjacks = @ + 1]
              [] o = "DEALER_WIN" -> [res EXCEPT !.losses = @ + 1]
              [] o = "PLAYER_BUST" -> [res EXCEPT !.losses = @ + 1, !.busts = @ + 1]
              [] o = "PUSH" -> [res EXCEPT !.pushes = @ + 1]
              [] o = "SURRENDER" -> [res EXCEPT !.losses = @ + 1]
  IN  [r1 EXCEPT !.totalReward = @ + outcomeToReward(o, doubled)]

\* The inner loop of Evaluator::evaluate over the outcomes of one game, from
\* index j (1-based) on.
RECURSIVE countOutcomes(_, _, _, _)
countOutcomes(res, outs, wasDoubled, j) ==
  IF j > Len(outs) THEN res
  ELSE countOutcomes(countOutcome(res, outs[j], j <= Len(wasDoubled) /\ wasDoubled[j]),
                     outs, wasDoubled, j + 1)

\* Largest number of games of one evaluation.
MaxGames == 2

\* Entry of Evaluator::evaluate(agent, n, compareStrategy).
Evaluate ==
  /\ evalPc = "idle"
  /\ \E n \in 1..MaxGames :
       /\ numGames' = n
       /\ result' = [EvaluationResult EXCEPT !.gamesPlayed = n]
  /\ gameIndex' = 0
  /\ evalPc' = "loop"
  /\ UNCHANGED <<gameVars, trainVars, agentVars, tableVars, fileVars, loopVars, strategyVars, handVars, deckVars>>

\* The part of one iteration of evaluate's loop that follows a step of
\* playGame: when the round is complete playGame returns the outcomes, which
\* are counted, and the loop moves on.
afterPlayStep(g2) ==
  /\ SetGame(g2)
  /\ IF g2.roundComplete
     THEN /\ result' = countOutcomes(result, g2.outcomes, g2.doubledByHand, 1)
          /\ gameIndex' = gameIndex + 1
          /\ evalPc' = "loop"
     ELSE /\ evalPc' = "play"
          /\ UNCHANGED <<result, gameIndex>>
  /\ UNCHANGED <<numGames, trainVars, agentVars, tableVars, fileVars, loopVars, strategyVars, handVars, deckVars>>

\* Evaluator::playGame up to its loop: startRound.
PlayGame ==
  /\ evalPc = "loop"
  /\ gameIndex < numGames
  /\ \E r \in startRound(G) : Dealt(r.g) /\ afterPlayStep(r.g)

\* One iteration of the loop of Evaluator::playGame.
PlayGameTurn ==
  /\ evalPc = "play"
  /\ LET playerHand == getPlayerHand(G)
         validActions == getValidActions(playerHand, canSplit(G), canDoubleDown(G),
                                         canSurrender(G))
     IN  \E k \in 1..Len(validActions) :
           LET action == validActions[k]
           IN  /\ action = "HIT" => hitsTaken(G) < MaxHits
               /\ \E r \in executeAction(action, G) : Dealt(r.g) /\ afterPlayStep(r.g)

\* Exit of evaluate's loop and return of the result.
EvaluateReturn ==
  /\ evalPc = "loop"
  /\ gameIndex = numGames
  /\ evalPc' = "done"
  /\ UNCHANGED <<gameVars, trainVars, agentVars, numGames, gameIndex, result, tableVars, fileVars, loopVars, strategyVars, handVars, deckVars>>

\* One evaluator under one rule set, with an engine that evaluate constructs.
InitEval ==
  /\ rules \in {r \in RuleSets : r.dealerHitsSoft17 /\ r.surrender}
  /\ shoe = {SIX, JACK}
  /\ currentIndex = 0
  /\ playerHands = << <<>> >>
  /\ currentHandIndex = 0
  /\ splitUsed = FALSE
  /\ dealerHand = <<>>
  /\ roundComplete = FALSE
  /\ outcome = "NONE"
  /\ outcomes = <<>>
  /\ doubledByHand = <<>>
  /\ pc = "idle"
  /\ experiences = <<>>
  /\ learnLog = <<>>
  /\ params = defaultParams
  /\ qTable = EmptyTable
  /\ epsilon = params.epsilon
  /\ stepCount = 0
  /\ InitEvaluator
  /\ InitPolicyTable
  /\ InitNoFile
  /\ InitTrainer
  /\ InitStrategy
  /\ InitHand
  /\ InitDeck

EvalNext == Evaluate \/ PlayGame \/ PlayGameTurn \/ EvaluateReturn

SpecEval == InitEval /\ [][EvalNext]_vars

\* ---------------------------------------------------------------------------
\* claims: evaluation

\* C12: when evaluate(agent, N, compareStrategy) has returned, gamesPlayed = N
\* and wins + losses + pushes = N.
C12_CountsSumToGames ==
  evalPc = "done" =>
    /\ result.gamesPlayed = numGames
    /\ result.wins + result.losses + result.pushes = numGames

\* ---------------------------------------------------------------------------
\* Q-table files and the remaining operations of QLearningAgent.

\* The position of an action in a row of Q-values (its enumerator value).
actionIndex(a) ==
  CASE a = "HIT" -> 0 [] a = "STAND" -> 1 [] a = "DOUBLE" -> 2 [] a = "SPLIT" -> 3

\* One record of a Q-table file: the five fields of the state, then
\* NUM_ACTIONS Q-values in enumerator order.
FileEntry(s, qvalues) ==
  [playerTotal |-> s.playerTotal, dealerUpCard |-> s.dealerUpCard,
   hasUsableAce |-> s.hasUsableAce, canSplit |-> s.canSplit,
   canDouble |-> s.canDouble, qvalues |-> qvalues]

\* A Q-table file: version, number of records, records.
TableFile(entries) == [version |-> 1, tableSize |-> Len(entries), entries |-> entries]

\* The loop of PolicyTable::loadFromBinary from record i on: each record read
\* is assigned to table_[state].
RECURSIVE readEntries(_, _, _)
readEntries(t, file, i) ==
  IF i > file.tableSize THEN t
  ELSE LET e == file.entries[i]
           state == State(e.playerTotal, e.dealerUpCard, e.hasUsableAce,
                          e.canSplit, e.canDouble)
           row == [a \in QActions |-> e.qvalues[actionIndex(a) + 1]]
       IN  readEntries([x \in DOMAIN t \cup {state} |-> IF x = state THEN row ELSE t[x]],
                       file, i + 1)

\* PolicyTable::loadFromBinary: a file of another version is refused before
\* the table is touched; otherwise the table is cleared and the records read.
loadFromBinary(t, file) ==
  IF file.version # 1 THEN t ELSE readEntries(EmptyTable, file, 1)

\* QLearningAgent::setEpsilon
setEpsilon(ag, e) ==
  [ag EXCEPT !.epsilon = Max({ag.params.epsilonMin, IF e <= Unit THEN e ELSE Unit})]

\* QLearningAgent::load: the Q-table file, then the keys epsilon and
\* step_count of the sidecar file; every other key is skipped.
load(ag, file) ==
  [ag EXCEPT !.qTable = loadFromBinary(@, file.qtable),
             !.epsilon = file.meta.epsilon,
             !.stepCount = file.meta.step_count]

\* QLearningAgent::reset
agentReset(ag) ==
  [ag EXCEPT !.qTable = EmptyTable, !.epsilon = ag.params.epsilon, !.stepCount = 0]

\* Files written by QLearningAgent::save of agents with any valid
\* hyperparameters (epsilonMin = 0 among them): an empty table or one learned
\* state, epsilon anywhere in [0, 1].
AgentFiles ==
  [qtable : {TableFile(<<>>),
             TableFile(<<FileEntry(State(16, 10, FALSE, FALSE, FALSE),
                                   <<-Unit, 0, 0, 0>>)>>)},
   meta : [epsilon : {Unit \div 8, Unit}, step_count : {0, 1}]]

\* Arguments of setEpsilon.
EpsilonInputs == {0, Unit \div 2, 2 * Unit}

SetEpsilon ==
  /\ \E e \in EpsilonInputs : SetAgent(setEpsilon(A, e))
  /\ UNCHANGED <<gameVars, trainVars, evalVars, tableVars, fileVars, loopVars, strategyVars, handVars, deckVars>>

Load ==
  /\ \E f \in AgentFiles : SetAgent(load(A, f))
  /\ UNCHANGED <<gameVars, trainVars, evalVars, tableVars, fileVars, loopVars, strategyVars, handVars, deckVars>>

AgentReset ==
  /\ SetAgent(agentReset(A))
  /\ UNCHANGED <<gameVars, trainVars, evalVars, tableVars, fileVars, loopVars, strategyVars, handVars, deckVars>>

AgentNext == Learn \/ SetEpsilon \/ Load \/ AgentReset

\* An agent under any sequence of learn, setEpsilon, load and reset.
SpecAgent == InitLearn /\ [][AgentNext]_vars

\* ---------------------------------------------------------------------------
\* claims: exploration rate

\* C13: in every state the agent can reach, a learn call leaves epsilon no
\* larger than before and not below epsilonMin, namely at
\* max(epsilonMin, epsilon * epsilonDecay), and adds one to the step counter.
C13_EpsilonDecay ==
  \A e \in ExperienceInputs :
    LET ag2 == learn(A, e)
    IN  /\ ag2.epsilon <= epsilon
        /\ ag2.epsilon >= params.epsilonMin
        /\ ag2.epsilon = Max({params.epsilonMin, Mul(params.epsilonDecay, epsilon)})
        /\ ag2.stepCount = stepCount + 1

\* ---------------------------------------------------------------------------
\* PolicyTable on its own, constructed with any default value.

\* PolicyTable::size
size(t) == Cardinality(DOMAIN t)

\* Default values a table is constructed with.
DefaultInputs == {0, Unit \div 2}

\* Values passed to PolicyTable::set.
ValueInputs == {Unit \div 4, -Unit}

\* A table constructed with PolicyTable(d), next to an idle engine and agent.
InitTable ==
  /\ rules \in {r \in RuleSets : r.dealerHitsSoft17 /\ ~r.surrender /\ r.doubleAfterSplit}
  /\ shoe = {ACE, JACK}
  /\ currentIndex = 0
  /\ playerHands = << <<>> >>
  /\ currentHandIndex = 0
  /\ splitUsed = FALSE
  /\ dealerHand = <<>>
  /\ roundComplete = FALSE
  /\ outcome = "NONE"
  /\ outcomes = <<>>
  /\ doubledByHand = <<>>
  /\ pc = "idle"
  /\ experiences = <<>>
  /\ learnLog = <<>>
  /\ params = defaultParams
  /\ qTable = EmptyTable
  /\ epsilon = params.epsilon
  /\ stepCount = 0
  /\ InitEvaluator
  /\ defaultValue_ \in DefaultInputs
  /\ everSet = {}
  /\ InitNoFile
  /\ InitTrainer
  /\ InitStrategy
  /\ InitHand
  /\ InitDeck

\* One call of PolicyTable::set.
TableSet ==
  /\ \E s \in LearnStates, a \in QActions, v \in ValueInputs :
       /\ qTable' = set(qTable, s, a, v)
       /\ everSet' = everSet \cup {s}
  /\ UNCHANGED <<gameVars, trainVars, params, epsilon, stepCount, evalVars, defaultValue_, fileVars, loopVars, strategyVars, handVars, deckVars>>

TableNext == TableSet

SpecTable == InitTable /\ [][TableNext]_vars

\* ---------------------------------------------------------------------------
\* claims: Q-table

\* C14: for a table constructed with default d: get returns d for every state
\* never set; a first set(s,a,v) on a state leaves get(s,a) = v and
\* get(s,b) = d for every other action b; any set leaves the entries of the
\* other states as they were; and size() is the number of distinct states
\* ever set.
C14_TableDefaults ==
  /\ \A s \in LearnStates \ everSet, a \in QActions : get(qTable, s, a) = defaultValue_
  /\ size(qTable) = Cardinality(everSet)
  /\ \A s \in LearnStates, a \in QActions, v \in ValueInputs :
       LET t2 == set(qTable, s, a, v)
       IN  /\ get(t2, s, a) = v
           /\ s \notin everSet =>
                \A b \in QActions \ {a} : get(t2, s, b) = defaultValue_
           /\ \A x \in LearnStates \ {s}, b \in QActions :
                get(t2, x, b) = get(qTable, x, b)
           /\ size(t2) = Cardinality(everSet \cup {s})

\* ---------------------------------------------------------------------------
\* Saving a Q-table and loading the file into another table.

\* PolicyTable::NUM_ACTIONS, the length of a row of Q-values.
NUM_ACTIONS == 4

\* The actions used with the Q-table: those of a row, and SURRENDER, which
\* getValidActions and the basic strategy pass to it as well.
Actions == QActions \cup {"SURRENDER"}

\* The orders in which the loop of saveToBinary may meet the states of the
\* table (the iteration order of std::unordered_map).
iterationOrders(S) ==
  { q \in [1..Cardinality(S) -> S] : \A i, j \in 1..Cardinality(S) : q[i] = q[j] => i = j }

\* PolicyTable::saveToBinary: the files it may write.
saveToBinary(t) ==
  { TableFile([i \in 1..Len(q) |->
                 FileEntry(q[i], [k \in 1..NUM_ACTIONS |->
                                    t[q[i]][CHOOSE a \in QActions : actionIndex(a) = k - 1]])])
    : q \in iterationOrders(DOMAIN t) }

\* static_cast<size_t>(action): SURRENDER is the fifth enumerator of Action.
rowIndex(a) == IF a = "SURRENDER" THEN NUM_ACTIONS ELSE actionIndex(a)

\* Values that a read past the end of a row may produce.
OutOfRowValues == {0, Unit}

\* The values PolicyTable::get may return: the default for an unvisited state,
\* the entry of the row for an index below NUM_ACTIONS, and whatever lies
\* behind the row (an out-of-bounds read of std::array) for a larger index.
getResults(t, s, a) ==
  IF s \notin DOMAIN t THEN {defaultValue_}
  ELSE IF rowIndex(a) < NUM_ACTIONS THEN {t[s][a]}
  ELSE OutOfRowValues

\* Tables built by at most two calls of set.
OneSetTables ==
  { set(EmptyTable, s, a, v) : s \in LearnStates, a \in {"HIT", "SPLIT"}, v \in ValueInputs }

TableInputs ==
  {EmptyTable} \cup OneSetTables
    \cup { set(t, s, a, v) : t \in OneSetTables, s \in LearnStates,
                             a \in {"STAND"}, v \in ValueInputs }

\* Two tables with any contents, no file written yet.
InitFile ==
  /\ rules \in {r \in RuleSets : r.dealerHitsSoft17 /\ ~r.surrender /\ r.doubleAfterSplit}
  /\ shoe = {ACE, JACK}
  /\ currentIndex = 0
  /\ playerHands = << <<>> >>
  /\ currentHandIndex = 0
  /\ splitUsed = FALSE
  /\ dealerHand = <<>>
  /\ roundComplete = FALSE
  /\ outcome = "NONE"
  /\ outcomes = <<>>
  /\ doubledByHand = <<>>
  /\ pc = "idle"
  /\ experiences = <<>>
  /\ learnLog = <<>>
  /\ params = defaultParams
  /\ qTable \in TableInputs
  /\ epsilon = params.epsilon
  /\ stepCount = 0
  /\ InitEvaluator
  /\ InitPolicyTable
  /\ savedFile = NoFile
  /\ table2 \in TableInputs
  /\ InitTrainer
  /\ InitStrategy
  /\ InitHand
  /\ InitDeck

\* table1.saveToBinary(filepath)
SaveToBinary ==
  /\ savedFile' \in saveToBinary(qTable)
  /\ UNCHANGED <<gameVars, trainVars, agentVars, evalVars, tableVars, table2, loopVars, strategyVars, handVars, deckVars>>

\* table2.loadFromBinary(filepath)
LoadFromBinary ==
  /\ savedFile # NoFile
  /\ table2' = loadFromBinary(table2, savedFile)
  /\ UNCHANGED <<gameVars, trainVars, agentVars, evalVars, tableVars, savedFile, loopVars, strategyVars, handVars, deckVars>>

FileNext == SaveToBinary \/ LoadFromBinary

SpecFile == InitFile /\ [][FileNext]_vars

\* C15: whatever the second table holds, loading a file saved from the first
\* table leaves it with the same set of visited states (and size) and, for
\* every visited state and each of HIT, STAND, DOUBLE, SPLIT and SURRENDER,
\* the same Q-value; no state outside the file remains in it.
C15_SaveLoadRoundTrip ==
  \A f \in saveToBinary(qTable) :
    LET t3 == loadFromBinary(table2, f)
    IN  /\ DOMAIN t3 = DOMAIN qTable
        /\ size(t3) = size(qTable)
        /\ \A s \in DOMAIN qTable, a \in Actions :
             \A v1 \in getResults(qTable, s, a), v2 \in getResults(t3, s, a) : v1 = v2
        /\ \A s \in DOMAIN table2 \ DOMAIN qTable : s \notin DOMAIN t3

\* ---------------------------------------------------------------------------
\* The round engine on a single deck cut at 99 percent.

InitShoe ==
  /\ rules = [numDecks |-> 1, dealerHitsSoft17 |-> TRUE, surrender |-> FALSE,
              doubleAfterSplit |-> TRUE, maxSplits |-> 3, penetration |-> 99]
  /\ shoe = {JACK, QUEEN}
  /\ currentIndex = 0
  /\ playerHands = << <<>> >>
  /\ currentHandIndex = 0
  /\ splitUsed = FALSE
  /\ dealerHand = <<>>
  /\ roundComplete = FALSE
  /\ outcome = "NONE"
  /\ outcomes = <<>>
  /\ doubledByHand = <<>>
  /\ pc = "idle"
  /\ experiences = <<>>
  /\ learnLog = <<>>
  /\ params = defaultParams
  /\ qTable = EmptyTable
  /\ epsilon = params.epsilon
  /\ stepCount = 0
  /\ InitEvaluator
  /\ InitPolicyTable
  /\ InitNoFile
  /\ InitTrainer
  /\ InitStrategy
  /\ InitHand
  /\ InitDeck

SpecShoe == InitShoe /\ [][Next]_vars

\* ---------------------------------------------------------------------------
\* claims: shoe

\* C16: with penetration below 1 and the reshuffle check made at startRound
\* only, no call of the engine deals past the end of the shoe: in every state,
\* startRound and every player call on a dealt round take only cards the shoe
\* still holds.
C16_DeckNeverEmpty ==
  (rules.penetration < 100 /\ rules.numDecks >= 1) =>
    /\ \A r \in startRound(G) : Dealt(r.g)
    /\ RoundDealt =>
         \A r \in hit(G) \cup stand(G) \cup doubleDown(G) \cup split(G) \cup surrender(G) :
           Dealt(r.g)

\* ---------------------------------------------------------------------------
\* Trainer::trainEpisodes.  runEpisode is carried as its steps (agent turns,
\* then one learn call for every captured experience); the win rate an
\* evaluation returns is an input.

\* Largest numEpisodes, and largest number of agent turns of one episode.
MaxEpisodes == 3
MaxTurns == 2

\* Win rates returned by Evaluator::evaluate, and values of minImprovement, in
\* one unit.
WinRates == {0, 1, 2}

ConfigInputs ==
  { TrainingConfig(n, f, 2, p, m) : n \in 1..MaxEpisodes, f \in {1, 2}, p \in {1, 2},
                                    m \in {0, 1} }

\* The end of Trainer::evaluate: the improvement test on the win rate w of the
\* result, giving the new bestWinRate_ and episodesSinceImprovement_.
checkImprovement(best, since, w, minImprovement) ==
  IF w > best + minImprovement
  THEN [bestWinRate |-> w, episodesSinceImprovement |-> 0]
  ELSE [bestWinRate |-> best, episodesSinceImprovement |-> since + 1]

\* Faulty variant of shouldStopEarly: one more evaluation without improvement
\* is waited for.
shouldStopEarly_Strict(since, patience) == since > patience

\* Trainer::shouldStopEarly
shouldStopEarly(since, patience) == since >= patience

\* Trainer::train calls trainEpisodes(config_.numEpisodes): the locals
\* startEpisode and endEpisode, and the loop variable.
TrainEpisodes ==
  /\ loopPc = "idle"
  /\ endEpisode' = totalEpisodes + config.numEpisodes
  /\ episode' = totalEpisodes
  /\ loopPc' = "top"
  /\ UNCHANGED <<config, totalEpisodes, episodesSinceImprovement, bestWinRate,
                 resultWinRate, shouldStop, checkpoints, episodeExperiences,
                 episodeLearned, episodesRun, evaluations, startedAfterStop>>
  /\ UNCHANGED <<gameVars, trainVars, agentVars, evalVars, tableVars, fileVars, strategyVars, handVars, deckVars>>

\* Faulty variant of LoopTop: the stop request is not looked at.
LoopTop_IgnoreStop ==
  /\ loopPc = "top"
  /\ loopPc' = IF episode < endEpisode THEN "begin" ELSE "final"
  /\ UNCHANGED <<config, episode, endEpisode, totalEpisodes, episodesSinceImprovement,
                 bestWinRate, resultWinRate, shouldStop, checkpoints,
                 episodeExperiences, episodeLearned, episodesRun, evaluations,
                 startedAfterStop>>
  /\ UNCHANGED <<gameVars, trainVars, agentVars, evalVars, tableVars, fileVars, strategyVars, handVars, deckVars>>

\* The loop condition and the stop check at the top of an iteration: on a stop
\* request a checkpoint named after the episode is saved and the loop left.
LoopTop ==
  /\ loopPc = "top"
  /\ IF episode < endEpisode
     THEN IF shouldStop
          THEN /\ checkpoints' = checkpoints \cup {episode}
               /\ loopPc' = "final"
          ELSE /\ loopPc' = "begin"
               /\ UNCHANGED checkpoints
     ELSE /\ loopPc' = "final"
          /\ UNCHANGED checkpoints
  /\ UNCHANGED <<config, episode, endEpisode, totalEpisodes, episodesSinceImprovement,
                 bestWinRate, resultWinRate, shouldStop, episodeExperiences,
                 episodeLearned, episodesRun, evaluations, startedAfterStop>>
  /\ UNCHANGED <<gameVars, trainVars, agentVars, evalVars, tableVars, fileVars, strategyVars, handVars, deckVars>>

\* The call of runEpisode: the round is dealt, and is complete at once on a
\* natural.
EpisodeBegin ==
  /\ loopPc = "begin"
  /\ \E complete \in BOOLEAN : loopPc' = IF complete THEN "learn" ELSE "turn"
  /\ episodeExperiences' = 0
  /\ episodeLearned' = 0
  /\ startedAfterStop' = IF shouldStop THEN startedAfterStop + 1 ELSE startedAfterStop
  /\ UNCHANGED <<config, episode, endEpisode, totalEpisodes, episodesSinceImprovement,
                 bestWinRate, resultWinRate, shouldStop, checkpoints, episodesRun,
                 evaluations>>
  /\ UNCHANGED <<gameVars, trainVars, agentVars, evalVars, tableVars, fileVars, strategyVars, handVars, deckVars>>

\* One iteration of playAgentTurn: an experience is captured, and the round
\* may be complete.
EpisodeTurn ==
  /\ loopPc = "turn"
  /\ episodeExperiences < MaxTurns
  /\ episodeExperiences' = episodeExperiences + 1
  /\ \E complete \in BOOLEAN :
       /\ episodeExperiences' = MaxTurns => complete
       /\ loopPc' = IF complete THEN "learn" ELSE "turn"
  /\ UNCHANGED <<config, episode, endEpisode, totalEpisodes, episodesSinceImprovement,
                 bestWinRate, resultWinRate, shouldStop, checkpoints, episodeLearned,
                 episodesRun, evaluations, startedAfterStop>>
  /\ UNCHANGED <<gameVars, trainVars, agentVars, evalVars, tableVars, fileVars, strategyVars, handVars, deckVars>>

\* One learn call of finishEpisode.
EpisodeLearn ==
  /\ loopPc = "learn"
  /\ episodeLearned < episodeExperiences
  /\ episodeLearned' = episodeLearned + 1
  /\ UNCHANGED <<config, loopPc, episode, endEpisode, totalEpisodes,
                 episodesSinceImprovement, bestWinRate, resultWinRate, shouldStop,
                 checkpoints, episodeExperiences, episodesRun, evaluations,
                 startedAfterStop>>
  /\ UNCHANGED <<gameVars, trainVars, agentVars, evalVars, tableVars, fileVars, strategyVars, handVars, deckVars>>

\* The rest of the iteration once runEpisode has returned: totalEpisodes, the
\* periodic evaluation with the early-stopping test, the periodic checkpoint,
\* and the increment of the loop variable.
EpisodeEnd ==
  /\ loopPc = "learn"
  /\ episodeLearned = episodeExperiences
  /\ totalEpisodes' = episode + 1
  /\ episodesRun' = episodesRun + 1
  /\ IF (episode + 1) % config.evalFrequency = 0
     THEN \E w \in WinRates :
            LET c == checkImprovement(bestWinRate, episodesSinceImprovement, w,
                                      config.minImprovement)
                stop == shouldStopEarly(c.episodesSinceImprovement,
                                        config.earlyStoppingPatience)
            IN  /\ resultWinRate' = w
                /\ bestWinRate' = c.bestWinRate
                /\ episodesSinceImprovement' = c.episodesSinceImprovement
                /\ evaluations' = evaluations + 1
                /\ IF stop
                   THEN /\ loopPc' = "final"
                        /\ UNCHANGED <<episode, checkpoints>>
                   ELSE /\ loopPc' = "top"
                        /\ episode' = episode + 1
                        /\ checkpoints' =
                             IF (episode + 1) % config.checkpointFrequency = 0
                             THEN checkpoints \cup {episode + 1} ELSE checkpoints
     ELSE /\ loopPc' = "top"
          /\ episode' = episode + 1
          /\ checkpoints' = IF (episode + 1) % config.checkpointFrequency = 0
                            THEN checkpoints \cup {episode + 1} ELSE checkpoints
          /\ UNCHANGED <<resultWinRate, bestWinRate, episodesSinceImprovement,
                         evaluations>>
  /\ UNCHANGED <<config, endEpisode, shouldStop, episodeExperiences, episodeLearned,
                 startedAfterStop>>
  /\ UNCHANGED <<gameVars, trainVars, agentVars, evalVars, tableVars, fileVars, strategyVars, handVars, deckVars>>

\* After the loop: the final evaluation and the final checkpoint; trainEpisodes
\* returns currentMetrics_.
FinalEvaluation ==
  /\ loopPc = "final"
  /\ \E w \in WinRates :
       LET c == checkImprovement(bestWinRate, episodesSinceImprovement, w,
                                 config.minImprovement)
       IN  /\ resultWinRate' = w
           /\ bestWinRate' = c.bestWinRate
           /\ episodesSinceImprovement' = c.episodesSinceImprovement
  /\ evaluations' = evaluations + 1
  /\ checkpoints' = checkpoints \cup {totalEpisodes}
  /\ loopPc' = "done"
  /\ UNCHANGED <<config, episode, endEpisode, totalEpisodes, shouldStop,
                 episodeExperiences, episodeLearned, episodesRun, startedAfterStop>>
  /\ UNCHANGED <<gameVars, trainVars, agentVars, evalVars, tableVars, fileVars, strategyVars, handVars, deckVars>>

\* The signal handler, at any moment while trainEpisodes runs: requestStop.
RequestStop ==
  /\ loopPc \notin {"idle", "done"}
  /\ ~shouldStop
  /\ shouldStop' = TRUE
  /\ UNCHANGED <<config, loopPc, episode, endEpisode, totalEpisodes,
                 episodesSinceImprovement, bestWinRate, resultWinRate, checkpoints,
                 episodeExperiences, episodeLearned, episodesRun, evaluations,
                 startedAfterStop>>
  /\ UNCHANGED <<gameVars, trainVars, agentVars, evalVars, tableVars, fileVars, strategyVars, handVars, deckVars>>

\* A trainer constructed with any configuration.
InitLoop ==
  /\ rules \in {r \in RuleSets : r.dealerHitsSoft17 /\ ~r.surrender /\ r.doubleAfterSplit}
  /\ shoe = {ACE, JACK}
  /\ currentIndex = 0
  /\ playerHands = << <<>> >>
  /\ currentHandIndex = 0
  /\ splitUsed = FALSE
  /\ dealerHand = <<>>
  /\ roundComplete = FALSE
  /\ outcome = "NONE"
  /\ outcomes = <<>>
  /\ doubledByHand = <<>>
  /\ pc = "idle"
  /\ experiences = <<>>
  /\ learnLog = <<>>
  /\ params = defaultParams
  /\ qTable = EmptyTable
  /\ epsilon = params.epsilon
  /\ stepCount = 0
  /\ InitEvaluator
  /\ InitPolicyTable
  /\ InitNoFile
  /\ config \in ConfigInputs
  /\ loopPc = "idle"
  /\ episode = 0
  /\ endEpisode = 0
  /\ totalEpisodes = 0
  /\ episodesSinceImprovement = 0
  /\ bestWinRate = 0
  /\ resultWinRate = 0
  /\ shouldStop = FALSE
  /\ checkpoints = {}
  /\ episodeExperiences = 0
  /\ episodeLearned = 0
  /\ episodesRun = 0
  /\ evaluations = 0
  /\ startedAfterStop = 0
  /\ InitStrategy
  /\ InitHand
  /\ InitDeck

LoopNext ==
  \/ TrainEpisodes \/ LoopTop \/ EpisodeBegin \/ EpisodeTurn \/ EpisodeLearn
  \/ EpisodeEnd \/ FinalEvaluation \/ RequestStop

SpecLoop == InitLoop /\ [][LoopNext]_vars

\* ---------------------------------------------------------------------------
\* claims: training loop

\* C17: episodes run one at a time; an evaluation follows an episode exactly
\* when the episode count is a multiple of evalFrequency; every evaluation
\* resets the patience counter and raises bestWinRate when the win rate
\* exceeds bestWinRate + minImprovement and adds one to the counter otherwise;
\* the loop is left at the first periodic evaluation that leaves the counter
\* at earlyStoppingPatience or more, and otherwise (no stop being requested)
\* only when numEpisodes episodes were run; totalEpisodes is the number of
\* episodes run; bestWinRate never decreases.
C17_TrainingLoop ==
  [][ /\ bestWinRate' >= bestWinRate
      /\ episodesRun' \in {episodesRun, episodesRun + 1}
      /\ evaluations' # evaluations =>
           /\ evaluations' = evaluations + 1
           /\ IF resultWinRate' > bestWinRate + config.minImprovement
              THEN episodesSinceImprovement' = 0 /\ bestWinRate' = resultWinRate'
              ELSE /\ episodesSinceImprovement' = episodesSinceImprovement + 1
                   /\ bestWinRate' = bestWinRate
      /\ episodesRun' = episodesRun + 1 =>
           /\ totalEpisodes' = episodesRun'
           /\ evaluations' = evaluations + 1 <=> totalEpisodes' % config.evalFrequency = 0
           /\ (evaluations' = evaluations + 1
               /\ episodesSinceImprovement' >= config.earlyStoppingPatience)
                => loopPc' = "final"
      /\ (loopPc # "final" /\ loopPc' = "final") =>
           \/ /\ episodesRun' = episodesRun + 1
              /\ evaluations' = evaluations + 1
              /\ episodesSinceImprovement' >= config.earlyStoppingPatience
           \/ shouldStop
           \/ episodesRun = config.numEpisodes
      /\ loopPc' = "begin" => episodesRun' < config.numEpisodes
      /\ loopPc' = "done" => totalEpisodes' = episodesRun' ]_vars

\* Training ended by early stopping before numEpisodes episodes were run.
C17_Witness ==
  /\ loopPc = "done"
  /\ ~shouldStop
  /\ episodesRun < config.numEpisodes
  /\ totalEpisodes = episodesRun
  /\ bestWinRate > 0


\* C18: with a stop requested at any moment of the run, at most one episode is
\* started after the request; outside an episode every experience of the last
\* episode has been learned from; and when trainEpisodes has returned a
\* checkpoint of the agent at totalEpisodes has been saved.
C18_StopRequest ==
  /\ startedAfterStop <= 1
  /\ loopPc \in {"top", "begin", "final", "done"} => episodeLearned = episodeExperiences
  /\ loopPc = "done" => totalEpisodes \in checkpoints

\* A stop requested between the check at the top of the loop and the start of
\* the episode: that episode ran with both of its experiences learned from, no
\* other was started, and the checkpoint was saved.
C18_Witness ==
  /\ loopPc = "done"
  /\ shouldStop
  /\ startedAfterStop = 1
  /\ episodeExperiences = MaxTurns
  /\ episodeLearned = MaxTurns
  /\ episodesRun < config.numEpisodes
  /\ totalEpisodes \in checkpoints

\* ---------------------------------------------------------------------------
\* BasicStrategy (Evaluator.cpp).  The strategy maps are built as the
\* constructor builds them: a later assignment to a key replaces an earlier
\* one, so in f @@ g the assignments of f are the later ones.

\* The dealer cards the maps are keyed by: 2..10 and 11 for an Ace.
DealerKeys == 2..11

\* BasicStrategy::initializeHardStrategy
hardStrategy_ ==
  LET upTo8 == [k \in (4..8) \X DealerKeys |-> "HIT"]
      on9 == [k \in {9} \X DealerKeys |-> IF k[2] >= 3 /\ k[2] <= 6 THEN "DOUBLE" ELSE "HIT"]
      on10 == [k \in {10} \X DealerKeys |-> IF k[2] >= 2 /\ k[2] <= 9 THEN "DOUBLE" ELSE "HIT"]
      on11 == [k \in {11} \X DealerKeys |-> "DOUBLE"]
      on12 == [k \in {12} \X DealerKeys |-> IF k[2] >= 4 /\ k[2] <= 6 THEN "STAND" ELSE "HIT"]
      from13 == [k \in (13..16) \X DealerKeys |->
                   IF k[2] >= 2 /\ k[2] <= 6 THEN "STAND" ELSE "HIT"]
      surrenders == [k \in {<<15, 10>>, <<16, 9>>, <<16, 10>>, <<16, 11>>} |-> "SURRENDER"]
      from17 == [k \in (17..21) \X DealerKeys |-> "STAND"]
  IN  from17 @@ surrenders @@ from13 @@ on12 @@ on11 @@ on10 @@ on9 @@ upTo8

\* BasicStrategy::initializeSoftStrategy
softStrategy_ ==
  LET to17 == [k \in (13..17) \X DealerKeys |-> "HIT"]
      on18 == [k \in {18} \X DealerKeys |-> IF k[2] <= 8 THEN "STAND" ELSE "HIT"]
      from19 == [k \in (19..21) \X DealerKeys |-> "STAND"]
  IN  from19 @@ on18 @@ to17

\* Faulty variant of getAction: the Ace is looked up as 1.
getAction_AceLookedUpAsOne(state) ==
  LET key == <<state.playerTotal, state.dealerUpCard>>
  IN  IF state.hasUsableAce /\ key \in DOMAIN softStrategy_ THEN softStrategy_[key]
      ELSE IF ~state.hasUsableAce /\ key \in DOMAIN hardStrategy_ THEN hardStrategy_[key]
      ELSE IF state.playerTotal < 17 THEN "HIT" ELSE "STAND"

\* BasicStrategy::getAction
getAction(state) ==
  LET dealerCard == IF state.dealerUpCard = 1 THEN 11 ELSE state.dealerUpCard
      key == <<state.playerTotal, dealerCard>>
  IN  IF state.hasUsableAce /\ key \in DOMAIN softStrategy_ THEN softStrategy_[key]
      ELSE IF ~state.hasUsableAce /\ key \in DOMAIN hardStrategy_ THEN hardStrategy_[key]
      ELSE IF state.playerTotal < 17 THEN "HIT" ELSE "STAND"

\* BasicStrategy::isCorrectAction
isCorrectAction(state, action) ==
  LET optimal == getAction(state)
  IN  IF optimal = "DOUBLE" /\ action = "HIT" THEN TRUE ELSE action = optimal

\* The states compareWithBasicStrategy and the tests look up: the
\* three-argument constructor of State leaves canSplit and canDouble false.
StrategyStates ==
  { State(playerTotal, dealerCard, hasUsableAce, FALSE, FALSE) :
      playerTotal \in 4..21, dealerCard \in 1..10, hasUsableAce \in BOOLEAN }

\* getBasicStrategy().getAction(queryState)
GetAction ==
  /\ optimalAction' = getAction(queryState)
  /\ UNCHANGED <<queryState, queryAction, correct, accuracies, handVars, deckVars>>
  /\ UNCHANGED <<gameVars, trainVars, agentVars, evalVars, tableVars, fileVars, loopVars, handVars, deckVars>>

\* getBasicStrategy().isCorrectAction(queryState, queryAction)
IsCorrectAction ==
  /\ correct' = isCorrectAction(queryState, queryAction)
  /\ UNCHANGED <<queryState, queryAction, optimalAction, accuracies, handVars, deckVars>>
  /\ UNCHANGED <<gameVars, trainVars, agentVars, evalVars, tableVars, fileVars, loopVars, handVars, deckVars>>

\* An evaluator, with any state and any action to look up.
InitQuery ==
  /\ rules \in {r \in RuleSets : r.dealerHitsSoft17 /\ ~r.surrender /\ r.doubleAfterSplit}
  /\ shoe = {ACE, JACK}
  /\ currentIndex = 0
  /\ playerHands = << <<>> >>
  /\ currentHandIndex = 0
  /\ splitUsed = FALSE
  /\ dealerHand = <<>>
  /\ roundComplete = FALSE
  /\ outcome = "NONE"
  /\ outcomes = <<>>
  /\ doubledByHand = <<>>
  /\ pc = "idle"
  /\ experiences = <<>>
  /\ learnLog = <<>>
  /\ params = defaultParams
  /\ qTable = EmptyTable
  /\ epsilon = params.epsilon
  /\ stepCount = 0
  /\ InitEvaluator
  /\ InitPolicyTable
  /\ InitNoFile
  /\ InitTrainer
  /\ queryState \in StrategyStates
  /\ queryAction \in Actions
  /\ optimalAction = "NONE"
  /\ correct = FALSE
  /\ accuracies = <<>>
  /\ InitHand
  /\ InitDeck

StrategyNext == GetAction \/ IsCorrectAction

SpecStrategy == InitQuery /\ [][StrategyNext]_vars

\* ---------------------------------------------------------------------------
\* claims: basic strategy

\* The states the reference rules of C20 give an action for: every hard total,
\* and the soft totals from 13.
referenceCovers(s) == ~s.hasUsableAce \/ s.playerTotal >= 13

\* The reference rules of C20, the dealer's Ace being 11 (d = 1 in the state).
referenceAction(s) ==
  LET p == s.playerTotal
      d == IF s.dealerUpCard = 1 THEN 11 ELSE s.dealerUpCard
  IN  IF s.hasUsableAce
      THEN IF p <= 17 THEN "HIT"
           ELSE IF p = 18 THEN (IF d \in 2..8 THEN "STAND" ELSE "HIT")
           ELSE "STAND"
      ELSE IF p <= 8 THEN "HIT"
           ELSE IF p = 9 THEN (IF d \in 3..6 THEN "DOUBLE" ELSE "HIT")
           ELSE IF p = 10 THEN (IF d \in 2..9 THEN "DOUBLE" ELSE "HIT")
           ELSE IF p = 11 THEN "DOUBLE"
           ELSE IF p = 12 THEN (IF d \in 4..6 THEN "STAND" ELSE "HIT")
           ELSE IF p <= 16
                THEN IF (p = 15 /\ d = 10) \/ (p = 16 /\ d \in {9, 10, 11}) THEN "SURRENDER"
                     ELSE IF d \in 2..6 THEN "STAND" ELSE "HIT"
           ELSE "STAND"

\* C20: for every player total 4..21, dealer upcard 1..10 and soft flag the
\* reference rules cover, getAction returns the action of the reference rules,
\* and isCorrectAction(s, a) holds exactly when a is getAction(s), or
\* getAction(s) is DOUBLE and a is HIT; the values the evaluator has returned
\* are those.
C20_BasicStrategy ==
  /\ referenceCovers(queryState) => getAction(queryState) = referenceAction(queryState)
  /\ \A a \in Actions :
       isCorrectAction(queryState, a)
         <=> (a = getAction(queryState) \/ (getAction(queryState) = "DOUBLE" /\ a = "HIT"))
  /\ optimalAction # "NONE" =>
       /\ optimalAction = getAction(queryState)
       /\ referenceCovers(queryState) => optimalAction = referenceAction(queryState)
  /\ correct => \/ queryAction = getAction(queryState)
                \/ getAction(queryState) = "DOUBLE" /\ queryAction = "HIT"

\* Hard 16 against an Ace looked up: SURRENDER is returned and accepted.
C20_Witness ==
  /\ queryState = State(16, 1, FALSE, FALSE, FALSE)
  /\ queryAction = "SURRENDER"
  /\ optimalAction = "SURRENDER"
  /\ correct


\* ---------------------------------------------------------------------------
\* Evaluator::compareWithBasicStrategy and the agent's choice of an action.

\* Largest number of comparisons made on one agent.
MaxCompares == 2

\* State::isValid
isValid(s) ==
  s.playerTotal >= 4 /\ s.playerTotal <= 21 /\ s.dealerUpCard >= 1 /\ s.dealerUpCard <= 10

\* The loop of PolicyTable::getMaxAction from position i on: the actions it may
\* return.  A value replaces the maximum only when strictly greater.
RECURSIVE scanMaxAction(_, _, _, _, _, _)
scanMaxAction(t, s, validActions, i, maxQ, bestAction) ==
  IF i > Len(validActions) THEN {bestAction}
  ELSE UNION { IF q > maxQ
               THEN scanMaxAction(t, s, validActions, i + 1, q, validActions[i])
               ELSE scanMaxAction(t, s, validActions, i + 1, maxQ, bestAction)
               : q \in getResults(t, s, validActions[i]) }

\* PolicyTable::getMaxAction
getMaxAction(t, s, validActions) ==
  scanMaxAction(t, s, validActions, 1, lowest, validActions[1])

\* QLearningAgent::greedyAction (const: the agent is not changed)
greedyAction(ag, s, validActions) == getMaxAction(ag.qTable, s, validActions)

\* QLearningAgent::epsilonGreedy: a number in [0, 1) is drawn; below epsilon a
\* second draw picks any valid action, otherwise the greedy action is taken.
epsilonGreedy(ag, s, validActions) ==
  { [action |-> validActions[i], draws |-> 2, ag |-> ag] :
      i \in IF ag.epsilon > 0 THEN 1..Len(validActions) ELSE {} }
  \cup
  { [action |-> a, draws |-> 1, ag |-> ag] :
      a \in IF ag.epsilon < Unit THEN greedyAction(ag, s, validActions) ELSE {} }

\* QLearningAgent::chooseAction: the actions it may return, each with the
\* number of random numbers drawn and the agent afterwards.
chooseAction(ag, s, validActions, training) ==
  IF training THEN epsilonGreedy(ag, s, validActions)
  ELSE { [action |-> a, draws |-> 0, ag |-> ag] : a \in greedyAction(ag, s, validActions) }

\* The validActions compareWithBasicStrategy builds for a state.
compareValidActions(s) ==
  LET dealerForLookup == IF s.dealerUpCard = 1 THEN 11 ELSE s.dealerUpCard
      withDouble == IF s.playerTotal >= 9 /\ s.playerTotal <= 11
                    THEN <<"HIT", "STAND", "DOUBLE">> ELSE <<"HIT", "STAND">>
  IN  IF ~s.hasUsableAce
         /\ \/ s.playerTotal = 15 /\ dealerForLookup = 10
            \/ s.playerTotal = 16 /\ dealerForLookup \in {9, 10, 11}
      THEN Append(withDouble, "SURRENDER") ELSE withDouble

\* Evaluator::compareWithBasicStrategy: the accuracies matches / total it may
\* return, with the draws made and the agent afterwards.  A state on which
\* the agent's answer may or may not be correct adds 0 or 1 to matches.
compareWithBasicStrategy(ag) ==
  LET states == {s \in StrategyStates : isValid(s)}
      answers == [s \in states |->
                    { isCorrectAction(s, r.action) :
                        r \in chooseAction(ag, s, compareValidActions(s), FALSE) }]
      sure == {s \in states : answers[s] = {TRUE}}
      open == {s \in states : answers[s] = {TRUE, FALSE}}
      total == Cardinality(states)
  IN  { [accuracy |-> Frac(matches, total), draws |-> 0, ag |-> ag] :
          matches \in Cardinality(sure)..(Cardinality(sure) + Cardinality(open)) }

\* evaluator.compareWithBasicStrategy(agent): the accuracy returned is added
\* to those returned since the last learn call.
CompareWithBasicStrategy ==
  /\ Len(accuracies) < MaxCompares
  /\ \E r \in compareWithBasicStrategy(A) :
       /\ accuracies' = Append(accuracies, r.accuracy)
       /\ SetAgent(r.ag)
  /\ UNCHANGED <<queryState, queryAction, optimalAction, correct, handVars, deckVars>>
  /\ UNCHANGED <<gameVars, trainVars, evalVars, tableVars, fileVars, loopVars, handVars, deckVars>>

\* A new agent with either exploration rate, and an evaluator; learn calls
\* fill the Q-table.
InitCompare ==
  /\ rules \in {r \in RuleSets : r.dealerHitsSoft17 /\ ~r.surrender /\ r.doubleAfterSplit}
  /\ shoe = {ACE, JACK}
  /\ currentIndex = 0
  /\ playerHands = << <<>> >>
  /\ currentHandIndex = 0
  /\ splitUsed = FALSE
  /\ dealerHand = <<>>
  /\ roundComplete = FALSE
  /\ outcome = "NONE"
  /\ outcomes = <<>>
  /\ doubledByHand = <<>>
  /\ pc = "idle"
  /\ experiences = <<>>
  /\ learnLog = <<>>
  /\ params = defaultParams
  /\ qTable = EmptyTable
  /\ epsilon \in {params.epsilonMin, Unit}
  /\ stepCount = 0
  /\ InitEvaluator
  /\ defaultValue_ = defaultValue
  /\ everSet = {}
  /\ InitNoFile
  /\ InitTrainer
  /\ InitStrategy
  /\ InitHand
  /\ InitDeck

\* Terminal experiences on the states an agent is trained on.
TerminalExperiences == {e \in ExperienceInputs : e.done}

\* agent->learn(experience) between comparisons.
LearnBetweenCompares ==
  /\ stepCount < MaxLearnSteps
  /\ \E e \in TerminalExperiences : SetAgent(learn(A, e))
  /\ accuracies' = <<>>
  /\ UNCHANGED <<queryState, queryAction, optimalAction, correct, handVars, deckVars>>
  /\ UNCHANGED <<gameVars, trainVars, evalVars, tableVars, fileVars, loopVars, handVars, deckVars>>

CompareNext == CompareWithBasicStrategy \/ LearnBetweenCompares

SpecCompare == InitCompare /\ [][CompareNext]_vars

\* ---------------------------------------------------------------------------
\* claims: comparison with the basic strategy

\* C19: calls of compareWithBasicStrategy on the same agent with no learn call
\* in between return the same accuracy, whatever the Q-table and epsilon; the
\* exploit-mode query draws no random number and leaves the Q-table, epsilon
\* and the step counter as they were.
C19_CompareDeterministic ==
  /\ \A i, j \in 1..Len(accuracies) : accuracies[i] = accuracies[j]
  /\ LET results == compareWithBasicStrategy(A)
     IN  /\ \A r1, r2 \in results : r1.accuracy = r2.accuracy
         /\ \A r \in results : r.draws = 0 /\ r.ag = A
  /\ \A s \in StrategyStates :
       \A r \in chooseAction(A, s, compareValidActions(s), FALSE) : r.draws = 0 /\ r.ag = A

\* ---------------------------------------------------------------------------
\* Hand: addCard and clear on a hand of its own.

\* Largest number of cards added to the hand.
MaxCards == 3

\* Rank enum of Card.hpp.
KING == 13
Ranks == ACE..KING

\* Hand::addCard
AddCard ==
  /\ Len(hand) < MaxCards
  /\ \E c \in Ranks : hand' = Append(hand, c)
  /\ UNCHANGED <<gameVars, trainVars, agentVars, evalVars, tableVars, fileVars, loopVars, strategyVars, deckVars>>

\* Hand::clear
Clear ==
  /\ hand' = <<>>
  /\ UNCHANGED <<gameVars, trainVars, agentVars, evalVars, tableVars, fileVars, loopVars, strategyVars, deckVars>>

\* A game, agent and evaluator just constructed, and an empty hand.
InitCards ==
  /\ rules \in {r \in RuleSets : r.dealerHitsSoft17 /\ ~r.surrender /\ r.doubleAfterSplit}
  /\ shoe = {ACE, JACK}
  /\ currentIndex = 0
  /\ playerHands = << <<>> >>
  /\ currentHandIndex = 0
  /\ splitUsed = FALSE
  /\ dealerHand = <<>>
  /\ roundComplete = FALSE
  /\ outcome = "NONE"
  /\ outcomes = <<>>
  /\ doubledByHand = <<>>
  /\ pc = "idle"
  /\ experiences = <<>>
  /\ learnLog = <<>>
  /\ params = defaultParams
  /\ qTable = EmptyTable
  /\ epsilon = params.epsilon
  /\ stepCount = 0
  /\ InitEvaluator
  /\ InitPolicyTable
  /\ InitNoFile
  /\ InitTrainer
  /\ InitStrategy
  /\ InitHand
  /\ InitDeck

HandNext == AddCard \/ Clear

SpecHand == InitCards /\ [][HandNext]_vars

\* ---------------------------------------------------------------------------
\* claims: hand value

\* The sum of the card values of h with every Ace counted as 1.
RECURSIVE lowTotal(_)
lowTotal(h) ==
  IF h = <<>> THEN 0
  ELSE (IF Head(h) = ACE THEN 1 ELSE IF Head(h) >= 10 THEN 10 ELSE Head(h))
       + lowTotal(Tail(h))

\* The number of Aces lowered from 11 to 1 when they are lowered one at a
\* time while the total exceeds 21: the least number that brings the total to
\* 21 or less, or all of them.
acesLowered(h) ==
  LET n == Cardinality({i \in 1..Len(h) : h[i] = ACE})
      enough == {k \in 0..n : lowTotal(h) + 10 * (n - k) <= 21}
  IN  IF enough = {} THEN n ELSE CHOOSE k \in enough : \A j \in enough : k <= j

\* C21: after any sequence of addCard calls the total is the sum of the card
\* values with each Ace at 11, lowered to 1 one Ace at a time while over 21;
\* soft holds exactly when an Ace still counts 11, so soft implies total <= 21;
\* [A,6] is soft 17 and [A,6,9] hard 16; isBust holds iff total > 21 and
\* isBlackjack iff the hand has exactly two cards and total 21.
C21_HandValue ==
  LET n == Cardinality({i \in 1..Len(hand) : hand[i] = ACE})
      v == getValue(hand)
  IN  /\ v.total = lowTotal(hand) + 10 * (n - acesLowered(hand))
      /\ v.isSoft <=> acesLowered(hand) < n
      /\ v.isSoft => v.total <= 21
      /\ getTotal(hand) = v.total
      /\ isSoft(hand) = v.isSoft
      /\ isBust(hand) <=> v.total > 21
      /\ isBlackjack(hand) <=> (Len(hand) = 2 /\ v.total = 21)
      /\ hand = <<ACE, SIX>> => v = [total |-> 17, isSoft |-> TRUE]
      /\ hand = <<ACE, SIX, 9>> => v = [total |-> 16, isSoft |-> FALSE]

\* Ace, six and nine added in turn: the Ace has been lowered, hard 16.
C21_Witness ==
  /\ hand = <<ACE, SIX, 9>>
  /\ getValue(hand) = [total |-> 16, isSoft |-> FALSE]

\* ---------------------------------------------------------------------------
\* claims: outcome queries

\* The values of Outcome.
Outcomes ==
  {"PLAYER_WIN", "PLAYER_BLACKJACK", "DEALER_WIN", "PUSH", "PLAYER_BUST", "DEALER_BUST",
   "SURRENDER"}

\* C22: getOutcome fails with a logic error whenever the round is not complete
\* (before the first startRound, in the player's turn, between the hands of a
\* split, after reset) and changes nothing; on a complete round it returns the
\* outcome of the first hand, getOutcomes()[0].
C22_GetOutcome ==
  LET r == getOutcome(G)
  IN  /\ r.g = G
      /\ ~roundComplete => r.ret = "logic_error"
      /\ roundComplete =>
           /\ r.ret \in Outcomes
           /\ Len(getOutcomes(G)) >= 1
           /\ r.ret = getOutcomes(G)[1]

\* Between the two hands of a split: the first hand is played, the second is
\* the current hand, and getOutcome throws.
C22_Witness ==
  /\ ~roundComplete
  /\ Len(playerHands) = 2
  /\ currentHandIndex = 1
  /\ getOutcome(G).ret = "logic_error"

EpisodeReturned == pc = "idle" /\ roundComplete

JustDealt ==
  /\ RoundDealt
  /\ Len(playerHands) = 1
  /\ Len(playerHands[1]) = 2
  /\ Len(dealerHand) = 2
  /\ doubledByHand = <<FALSE>>
  /\ outcome # "SURRENDER"
  /\ roundComplete <=> (isBlackjack(playerHands[1]) \/ isBlackjack(dealerHand))

DeckInputs == [1..4 -> {ACE, SIX, JACK, QUEEN}]

\* Deck::deal: the card under the cursor (the cursor is advanced by the caller
\* of this operator).
deal(cards, index) == cards[index + 1]

\* BlackjackGame::startRound, after checkAndReshuffle, on the shoe cards.
startRoundDealing(g0, cards) ==
  LET i == g0.currentIndex
      single == <<deal(cards, i), deal(cards, i + 1)>>
      dh == <<deal(cards, i + 2), deal(cards, i + 3)>>
      g1 == [g0 EXCEPT !.currentIndex = @ + 4,
                       !.playerHands = <<single>>,
                       !.dealerHand = dh,
                       !.currentHandIndex = 0,
                       !.splitUsed = FALSE,
                       !.roundComplete = FALSE,
                       !.outcome = "NONE",
                       !.outcomes = <<>>,
                       !.doubledByHand = <<FALSE>>]
  IN  IF isBlackjack(single) \/ isBlackjack(dh)
      THEN Res([g1 EXCEPT !.roundComplete = TRUE,
                          !.outcome = determineOutcome(single, dh),
                          !.outcomes = <<determineOutcome(single, dh)>>], TRUE)
      ELSE Res(g1, TRUE)

\* game.startRound(): a reshuffle puts any cards on top.
StartRoundFromDeck ==
  /\ \E newCards \in IF needsReshuffle(G) THEN DeckInputs ELSE {cards_} :
       LET g0 == checkAndReshuffle(G)
       IN  /\ g0.currentIndex + 4 <= Len(newCards)
           /\ cards_' = newCards
           /\ SetGame(startRoundDealing(g0, newCards).g)
  /\ UNCHANGED <<trainVars, agentVars, evalVars, tableVars, fileVars, loopVars, strategyVars, handVars>>

\* A game just constructed, its shoe shuffled.
InitDeal ==
  /\ rules \in RuleSets
  /\ shoe = {ACE, SIX, JACK, QUEEN}
  /\ currentIndex = 0
  /\ playerHands = << <<>> >>
  /\ currentHandIndex = 0
  /\ splitUsed = FALSE
  /\ dealerHand = <<>>
  /\ roundComplete = FALSE
  /\ outcome = "NONE"
  /\ outcomes = <<>>
  /\ doubledByHand = <<>>
  /\ pc = "idle"
  /\ experiences = <<>>
  /\ learnLog = <<>>
  /\ params = defaultParams
  /\ qTable = EmptyTable
  /\ epsilon = params.epsilon
  /\ stepCount = 0
  /\ InitEvaluator
  /\ InitPolicyTable
  /\ InitNoFile
  /\ InitTrainer
  /\ InitStrategy
  /\ InitHand
  /\ cards_ \in DeckInputs

DealNext == StartRoundFromDeck

SpecDeal == InitDeal /\ [][DealNext]_vars

\* ---------------------------------------------------------------------------
\* claims: order of the deal

\* C26: startRound takes the next four cards c1, c2, c3, c4 of the shoe in
\* alternating order: the player receives c1 and c3, the dealer c2 and c4, and
\* the dealer's upcard is c2.
C26_AlternatingDeal ==
  RoundDealt =>
    LET c(k) == cards_[currentIndex - 4 + k]
    IN  /\ playerHands[1] = <<c(1), c(3)>>
        /\ dealerHand = <<c(2), c(4)>>
        /\ getDealerHand(G, TRUE) = <<c(2)>>


\* ---------------------------------------------------------------------------
\* claims: the states the trainer encodes

\* The state and the valid actions playAgentTurn computes at the decision
\* point the game is at.
decisionState == toAIState(getPlayerHand(G), getDealerHand(G, TRUE), canSplit(G), canDoubleDown(G))

decisionActions == getValidActions(getPlayerHand(G), canSplit(G), canDoubleDown(G), canSurrender(G))

encodedInRange(s) == s.playerTotal \in 4..21 /\ s.dealerUpCard \in 1..10

afterSplit(i) == \E j \in 1..(i - 1) : experiences[j].action = "SPLIT"

\* C27: every state and next state the trainer encodes after a split has
\* canSplit = false and canDouble = false and is offered exactly HIT and STAND;
\* the state of the first decision of a round has canDouble = true; every state
\* encoded at a decision point has a player total in 4..21 and a dealer upcard
\* in 1..10.
C27_EncodedStates ==
  /\ (pc = "turn" /\ ~roundComplete) =>
       /\ encodedInRange(decisionState)
       /\ experiences = <<>> => decisionState.canDouble
       /\ splitUsed =>
            /\ ~decisionState.canSplit
            /\ ~decisionState.canDouble
            /\ decisionActions = <<"HIT", "STAND">>
       /\ experiences # <<>> =>
            /\ experiences[Len(experiences)].nextState = decisionState
            /\ experiences[Len(experiences)].validNextActions = decisionActions
  /\ pc = "turn" =>
       \A i \in 1..Len(experiences) :
         LET e == experiences[i]
         IN  /\ encodedInRange(e.state)
             /\ i = 1 => e.state.canDouble
             /\ afterSplit(i) => ~e.state.canSplit /\ ~e.state.canDouble
             /\ ~e.done =>
                  /\ encodedInRange(e.nextState)
                  /\ (e.action = "SPLIT" \/ afterSplit(i)) =>
                       /\ ~e.nextState.canSplit
                       /\ ~e.nextState.canDouble
                       /\ e.validNextActions = <<"HIT", "STAND">>

\* The trainer has split, encoded the first split hand and then the second.
C27_Witness ==
  /\ pc = "turn"
  /\ ~roundComplete
  /\ Len(experiences) = 2
  /\ experiences[1].action = "SPLIT"
  /\ experiences[1].state.canSplit
  /\ experiences[1].validNextActions = <<"HIT", "STAND">>
  /\ currentHandIndex = 1
  /\ Len(getPlayerHand(G)) = 2
  /\ ~experiences[2].nextState.canDouble


\* ---------------------------------------------------------------------------
\* claims: termination of a round

EngineActions == {"HIT", "STAND", "DOUBLE", "SPLIT", "SURRENDER"}

InProgress(g) == g.dealerHand # <<>> /\ ~g.roundComplete

\* What is left of a round: 0 once it is complete; otherwise the room the hand
\* in play has before it must bust (Aces counted as 1), 23 for every hand
\* still waiting, and 46 while the split is still available.
roundMeasure(g) ==
  IF g.roundComplete THEN 0
  ELSE (22 - lowTotal(getPlayerHand(g)))
       + 23 * (Len(g.playerHands) - g.currentHandIndex - 1)
       + (IF g.splitUsed THEN 0 ELSE 46)

\* The dealer drew each card beyond the two dealt on a total of 16 or less
\* with Aces counted as 1, so the hand has at most 17 cards.
dealerLoopEnded(d) ==
  /\ Len(d) > 2 => lowTotal(SubSeq(d, 1, Len(d) - 1)) <= 16
  /\ Len(d) <= 17
  /\ isBust(d) \/ getValue(d).total >= 17

\* C28: from any in-progress round every accepted player action either
\* completes the round or strictly lowers a measure that lies in 1..66, so at
\* most 66 accepted actions complete the round; every action offered by
\* getValidActions is accepted; a rejected action changes nothing; and the
\* dealer's drawing loop ends with a hand of at most 17 cards.
C28_RoundTerminates ==
  InProgress(G) =>
    /\ roundMeasure(G) \in 1..66
    /\ \A a \in EngineActions :
         \A r \in executeAction(a, G) :
           /\ r.g # G =>
                /\ roundMeasure(r.g) < roundMeasure(G)
                /\ roundMeasure(r.g) >= 0
                /\ r.g.roundComplete =>
                     r.g.outcome = "SURRENDER" \/ dealerLoopEnded(r.g.dealerHand)
           /\ (\E k \in 1..Len(decisionActions) : decisionActions[k] = a) => r.g # G

\* A split round on its second hand after a hit: the measure has fallen from
\* above 46 to at most 20 and a further hit or stand lowers it again.
C28_Witness ==
  /\ InProgress(G)
  /\ splitUsed
  /\ currentHandIndex = 1
  /\ Len(getPlayerHand(G)) = 3
  /\ roundMeasure(G) <= 20
  /\ \E r \in hit(G) : ~r.g.roundComplete /\ roundMeasure(r.g) < roundMeasure(G)


\* ---------------------------------------------------------------------------
\* claims: blackjack after a split

\* C29: PLAYER_BLACKJACK is recorded only for a round that startRound
\* completed on the two cards dealt (one unsplit, undoubled two-card hand that
\* is a blackjack against the dealer's two cards); a two-card 21 of a split
\* hand is resolved by totals and never as PLAYER_BLACKJACK.
C29_BlackjackOnlyNatural ==
  (RoundDealt /\ roundComplete) =>
    \A i \in 1..Len(outcomes) :
      /\ outcomes[i] = "PLAYER_BLACKJACK" =>
           /\ ~splitUsed
           /\ Len(playerHands) = 1
           /\ isBlackjack(playerHands[1])
           /\ Len(dealerHand) = 2
           /\ doubledByHand = <<FALSE>>
      /\ (splitUsed /\ outcomes[i] # "SURRENDER") =>
           outcomes[i] = ResolveByTotals(playerHands[i], dealerHand)


\* ---------------------------------------------------------------------------
\* claims: the columns training leaves alone

\* The loop of Trainer::finishEpisode: Agent::learn on every experience, in
\* order.
RECURSIVE learnAll(_, _)
learnAll(ag, exps) ==
  IF exps = <<>> THEN ag ELSE learnAll(learn(ag, Head(exps)), Tail(exps))

\* The agent after the episode whose experiences learnLog holds.
trainedAgent == learnAll(A, learnLog)

\* Training updates DOUBLE and SURRENDER only in states with canDouble and
\* SPLIT only in states with canSplit.
updatesOnlyOffered ==
  \A i \in 1..Len(learnLog) :
    /\ learnLog[i].action \in {"DOUBLE", "SURRENDER"} => learnLog[i].state.canDouble
    /\ learnLog[i].action = "SPLIT" => learnLog[i].state.canSplit

\* C30: training a fresh agent never updates Q(s, DOUBLE) or Q(s, SURRENDER)
\* for a state without canDouble, nor Q(s, SPLIT) for a state without
\* canSplit; so in every state the basic-strategy comparison and the
\* convergence report query (canSplit and canDouble false) the Q-values of
\* DOUBLE and SURRENDER equal the table default after training.
C30_UntrainedColumns ==
  /\ updatesOnlyOffered
  /\ \A s \in DOMAIN trainedAgent.qTable \cap StrategyStates :
       \A a \in {"DOUBLE", "SURRENDER"} :
         \A v \in getResults(trainedAgent.qTable, s, a) : v = defaultValue

====
